---- MODULE Spec2Model ----
(***************************************************************************)
(* Model of the parallel logical dumper (Dumper, Dumper::Table_worker) of  *)
(* src/modules/util/mod_util.h.                                            *)
(*                                                                         *)
(* The specifications of the module:                                       *)
(*   SpecChunk      the chunker of one table (create_table_data_tasks,     *)
(*                  create_ranged_tasks, prepare_query) over bounded       *)
(*                  tables; SpecChunkFair adds fair scheduling;            *)
(*   SpecLock       the locking / snapshot phase of do_run against a       *)
(*                  server on which other sessions commit writes;          *)
(*   Spec           the life cycle of Dumper::run: coordinator, worker     *)
(*                  threads, task queue, data files, interrupt and errors; *)
(*   SpecStartup    the start of a run up to the readiness barrier;        *)
(*   SpecTasks      runs without interrupt or failure, for every number    *)
(*                  of workers and tables; SpecTasksFair adds fairness;    *)
(*   SpecData       the bytes of the data files and the progress counters; *)
(*   SpecMds        the compatibility pass (validate_mds);                 *)
(*   SpecQuery      the encodings of the columns of a table;               *)
(*   SpecNames      the base names of the files (get_basename).            *)
(***************************************************************************)
EXTENDS Integers, Sequences, FiniteSets

(***************************************************************************)
(* Bounds of the model.                                                    *)
(***************************************************************************)
\* width, in bits, that stands for the 64 bits of int64_t / uint64_t
IntBits == 3
\* most rows of a string-keyed table
MaxRows == 3
\* most rows with a NULL key
MaxNulls == 1
\* widest integer-keyed table (MAX - MIN), the table that fills the key type
\* apart
MaxSpan == 4

(***************************************************************************)
(* Program constants.                                                      *)
(***************************************************************************)
k_chunker_retries == 10
k_chunker_iterations == 10
k_default_row_size == 256

VARIABLES
  \* ---- the table being chunked and its statistics (SpecChunk) ----
  keyType,          \* mysqlshdk::db::Type of the first index column
  tableKeys,        \* non-NULL keys of the rows, in index order
  tableNulls,       \* number of rows whose key is NULL
  is_chunked,       \* m_options.split() && index.valid()
  row_count,        \* table.cache->row_count (an estimate)
  bytes_per_chunk,  \* m_options.bytes_per_chunk()
  average_row_length, \* table.cache->average_row_length
  \* ---- create_ranged_tasks ----
  kpc,              \* position inside create_table_data_tasks
  ranges_count,
  range_end,
  current,
  step,
  ns,               \* locals of the next_step lambda
  data_tasks,       \* Table_data_task objects pushed so far, in order
  ranges,           \* what create_ranged_tasks returned (line 562)
  arith             \* arithmetic faults seen: "overflow", "divzero", "offset"

tableVars == <<keyType, tableKeys, tableNulls, is_chunked, row_count,
               bytes_per_chunk, average_row_length>>

chunkVars == <<keyType, tableKeys, tableNulls, is_chunked, row_count,
               bytes_per_chunk, average_row_length, kpc, ranges_count,
               range_end, current, step, ns, data_tasks, ranges, arith>>

VARIABLES
  m_worker_interrupt  \* std::atomic<bool> Dumper::m_worker_interrupt

(***************************************************************************)
(* Text.  A std::string is a sequence of one-character strings.            *)
(***************************************************************************)
DigitChars == <<"0", "1", "2", "3", "4", "5", "6", "7", "8", "9">>

RECURSIVE Digits(_)
Digits(n) ==
  IF n < 10 THEN <<DigitChars[n + 1]>>
  ELSE Digits(n \div 10) \o <<DigitChars[(n % 10) + 1]>>

\* std::to_string of an integer
to_string(n) == IF n < 0 THEN <<"-">> \o Digits(-n) ELSE Digits(n)

DigitValue(c) == (CHOOSE i \in 1..10 : DigitChars[i] = c) - 1

RECURSIVE ParseDigits(_, _)
ParseDigits(s, acc) ==
  IF s = <<>> THEN acc
  ELSE ParseDigits(Tail(s), acc * 10 + DigitValue(Head(s)))

\* the server's reading of a bare integer literal
ParseInt(s) ==
  IF s # <<>> /\ Head(s) = "-" THEN -ParseDigits(Tail(s), 0)
  ELSE ParseDigits(s, 0)

\* characters of the string keys, in collation order
Alphabet == <<"L", "N", "U", "a", "b">>
CharCode(c) == CHOOSE i \in 1..Len(Alphabet) : Alphabet[i] = c

RECURSIVE StrLess(_, _)
StrLess(s, t) ==
  IF t = <<>> THEN FALSE
  ELSE IF s = <<>> THEN TRUE
  ELSE IF Head(s) = Head(t) THEN StrLess(Tail(s), Tail(t))
  ELSE CharCode(Head(s)) < CharCode(Head(t))

StrLeq(s, t) == s = t \/ StrLess(s, t)

IsIntType(t) == t \in {"Integer", "UInteger"}

\* is_string_type(type)
is_string_type(t) == t = "String"

\* quote_value: strings are quoted, integers are rendered bare
quote_value(value, type) ==
  IF is_string_type(type) THEN <<"'">> \o value \o <<"'">>
  ELSE IF type = "Decimal" THEN <<"'">> \o value \o <<"'">>
  ELSE value

\* the server's reading of a literal of a query: [quoted, text]
IsQuoted(lit) == Len(lit) >= 2 /\ Head(lit) = "'" /\ lit[Len(lit)] = "'"
Unquote(lit) == SubSeq(lit, 2, Len(lit) - 1)

(***************************************************************************)
(* Machine integers of IntBits bits.                                       *)
(***************************************************************************)
Pow2(n) == 2 ^ n
TMin(t) == IF t = "Integer" THEN -Pow2(IntBits - 1) ELSE 0
TMax(t) == IF t = "Integer" THEN Pow2(IntBits - 1) - 1 ELSE Pow2(IntBits) - 1
UMax == Pow2(IntBits) - 1

Wrap(t, x) ==
  IF t = "Integer"
    THEN ((x + Pow2(IntBits - 1)) % Pow2(IntBits)) - Pow2(IntBits - 1)
    ELSE x % Pow2(IntBits)

Fits(t, x) == TMin(t) <= x /\ x <= TMax(t)

\* C++ division truncates toward zero
CDiv(a, b) == IF a >= 0 THEN a \div b ELSE -((-a) \div b)

Max2(a, b) == IF a >= b THEN a ELSE b

(***************************************************************************)
(* The table as the chunker's queries see it.                              *)
(* An integer-keyed table is given by its smallest and largest key: every  *)
(* key in between may be the key of a row.  A string-keyed table is given  *)
(* by the keys of its rows.                                                *)
(***************************************************************************)
HasRows == tableKeys # <<>>
TableMin == tableKeys[1]
TableMax == tableKeys[Len(tableKeys)]

\* Row::get_as_string of a non-NULL key
KeyText(k) == IF IsIntType(keyType) THEN to_string(k) ELSE k

\* Row::get_as_string of a NULL field: the accessor is not part of src/
NullTexts == {<<"N", "U", "L", "L">>, <<>>}

\* total = {MIN(key), MAX(key), type}
total_begin == KeyText(TableMin)
total_end == KeyText(TableMax)

\* the keys a row of the table may have
PossibleKeys ==
  IF ~HasRows THEN {}
  ELSE IF IsIntType(keyType) THEN TableMin..TableMax
  ELSE {tableKeys[i] : i \in 1..Len(tableKeys)}

\* value of a literal of a query, compared with a key of the column
KeyLeq(a, b) == IF IsIntType(keyType) THEN a <= b ELSE StrLeq(a, b)
KeyLess(a, b) == IF IsIntType(keyType) THEN a < b ELSE StrLess(a, b)
LiteralValue(lit) == IF IsQuoted(lit) THEN Unquote(lit) ELSE ParseInt(lit)

\* rows of "SELECT key FROM t [WHERE key > lit] ORDER BY index": NULL keys
\* sort first and never satisfy the comparison
\* (where = <<>> stands for the query without a WHERE clause)
NullsIn(where) == IF where = <<>> THEN tableNulls ELSE 0
KeysIn(where) ==
  IF where = <<>> THEN tableKeys
  ELSE LET after == {i \in 1..Len(tableKeys) :
                        KeyLess(LiteralValue(where), tableKeys[i])}
       IN IF after = {} THEN <<>>
          ELSE SubSeq(tableKeys,
                      CHOOSE i \in after : \A j \in after : i <= j,
                      Len(tableKeys))

\* row of "... LIMIT offset,1": no row, a row with a NULL key, or a key
LimitRow(where, offset) ==
  IF offset < NullsIn(where) THEN [kind |-> "null", text |-> <<>>]
  ELSE IF offset - NullsIn(where) < Len(KeysIn(where))
         THEN [kind |-> "row",
               text |-> KeyText(KeysIn(where)[offset - NullsIn(where) + 1])]
         ELSE [kind |-> "none", text |-> <<>>]

(***************************************************************************)
(* Table_data_task and Dumper::Table_worker::create_table_data_task.       *)
(***************************************************************************)
\* create_table_data_task(table): the whole table in one file
WholeTableTask ==
  [ranged |-> FALSE, begin |-> <<>>, end |-> <<>>, type |-> "Null",
   include_nulls |-> FALSE, idx |-> 0, last_chunk |-> FALSE, id |-> <<"1">>]

MutRangedTaskNullsEverywhere(range, id, idx, last_chunk) ==
  [ranged |-> TRUE, begin |-> range.begin, end |-> range.end,
   type |-> range.type, include_nulls |-> TRUE, idx |-> idx,
   last_chunk |-> last_chunk, id |-> id]

\* variant: no task is flagged as the last chunk
MutRangedTaskNeverLast(range, id, idx, last_chunk) ==
  [ranged |-> TRUE, begin |-> range.begin, end |-> range.end,
   type |-> range.type, include_nulls |-> (0 = idx), idx |-> idx,
   last_chunk |-> FALSE, id |-> id]

\* create_table_data_task(table, range, id, idx, last_chunk)
RangedTask(range, id, idx, last_chunk) ==
  [ranged |-> TRUE, begin |-> range.begin, end |-> range.end,
   type |-> range.type, include_nulls |-> (0 = idx), idx |-> idx,
   last_chunk |-> last_chunk, id |-> id]

(***************************************************************************)
(* Dumper::Table_worker::prepare_query and the rows its query selects.     *)
(***************************************************************************)
prepare_query(task) ==
  IF task.begin # <<>>
    THEN [where |-> TRUE,
          lo |-> quote_value(task.begin, task.type),
          hi |-> quote_value(task.end, task.type),
          or_null |-> task.include_nulls]
    ELSE [where |-> FALSE, lo |-> <<>>, hi |-> <<>>, or_null |-> FALSE]

\* the server's evaluation of the WHERE clause on a row with key k
SelectsKey(q, k) ==
  ~q.where \/ (KeyLeq(LiteralValue(q.lo), k) /\ KeyLeq(k, LiteralValue(q.hi)))
SelectsNull(q) == ~q.where \/ q.or_null

TasksSelectingKey(k) ==
  {i \in 1..Len(data_tasks) : SelectsKey(prepare_query(data_tasks[i]), k)}
TasksSelectingNull ==
  {i \in 1..Len(data_tasks) : SelectsNull(prepare_query(data_tasks[i]))}

(***************************************************************************)
(* Dumper::Table_worker::create_ranged_tasks.                              *)
(***************************************************************************)
rows_per_chunk ==
  bytes_per_chunk \div
    (IF 0 = average_row_length THEN k_default_row_size ELSE average_row_length)

estimated_chunks ==
  IF rows_per_chunk > 0 THEN Max2(row_count \div rows_per_chunk, 1)
  ELSE row_count

accuracy == Max2(rows_per_chunk \div 10, 10)

\* what EXPLAIN may report as the number of rows of a range
ExplainRows == {0, 1, rows_per_chunk, rows_per_chunk + accuracy + 1}

\* probes counts the EXPLAIN queries of one call of next_step
NsIdle ==
  [from |-> 0, retry |-> 0, left |-> 0, right |-> 0, middle |-> 0,
   delta |-> 0, previous_row_count |-> 0, i |-> 0, result |-> 0,
   probes |-> 0]

\* the arithmetic faults of computing x in type t
Fault(t, x) == IF Fits(t, x) THEN {} ELSE {"overflow"}

\* lines 577-634 and 717-718: up to the first test of the striding loop
CreateRangedTasksBegin ==
  /\ kpc = "start"
  /\ IF ~is_chunked \/ ~HasRows
       THEN /\ kpc' = "finish"
            /\ UNCHANGED <<current, step, arith>>
     ELSE IF IsIntType(keyType)
       THEN LET diff == TableMax - TableMin
                udiff == Wrap("UInteger", Wrap(keyType, diff))
            IN IF estimated_chunks = 0
                 THEN \* division by zero: the process traps, or the quotient
                      \* is whatever the hardware leaves
                      /\ arith' = arith \cup Fault(keyType, diff) \cup {"divzero"}
                      /\ \/ /\ kpc' = "trapped"
                            /\ UNCHANGED <<current, step>>
                         \/ /\ kpc' = "gen"
                            /\ current' = TableMin
                            /\ step' = 0
                 ELSE /\ arith' = arith \cup Fault(keyType, diff)
                      /\ kpc' = "gen"
                      /\ current' = TableMin
                      /\ step' = Wrap(keyType, udiff \div estimated_chunks)
       ELSE /\ kpc' = "limit"
            /\ UNCHANGED <<current, step, arith>>
  /\ UNCHANGED <<ranges_count, range_end, ns, data_tasks, ranges>>

\* lines 720-731: the loop test, the interrupt test and the call of next_step
GenerateRangesLoop ==
  /\ kpc = "gen"
  /\ IF ~(current <= TableMax) \/ m_worker_interrupt
       THEN /\ kpc' = "finish"
            /\ ranges' = ranges_count
            /\ ns' = NsIdle
     ELSE IF estimated_chunks < 2
       THEN /\ kpc' = "gen_apply"
            /\ ranges' = ranges
            /\ ns' = [NsIdle EXCEPT !.from = current, !.result = step]
       ELSE /\ kpc' = "ns_while"
            /\ ns' = [NsIdle EXCEPT !.from = current, !.middle = current,
                                    !.previous_row_count = rows_per_chunk,
                                    !.delta = 2 * accuracy]
            /\ ranges' = ranges
  /\ UNCHANGED <<ranges_count, range_end, current, step, data_tasks, arith>>

\* lines 655-657 and 714: the test of the retry loop
NextStepWhile ==
  /\ kpc = "ns_while"
  /\ IF ns.delta > accuracy /\ ns.retry < k_chunker_retries
       THEN LET prod == (2 * (ns.retry + 1)) * step
                sum == ns.from + Wrap(keyType, prod)
            IN /\ ns' = [ns EXCEPT !.left = ns.from,
                                   !.right = Wrap(keyType, sum), !.i = 0]
               /\ arith' = arith \cup Fault(keyType, prod)
                                 \cup Fault(keyType, sum)
               /\ kpc' = "ns_for"
       ELSE /\ ns' = [ns EXCEPT !.result = Wrap(keyType, ns.middle - ns.from)]
            /\ arith' = arith \cup Fault(keyType, ns.middle - ns.from)
            /\ kpc' = "gen_apply"
  /\ UNCHANGED <<ranges_count, range_end, current, step, data_tasks, ranges>>

\* lines 659-695: one iteration of the bisection, with its EXPLAIN probe
NextStepFor ==
  /\ kpc = "ns_for"
  /\ IF ~(ns.i < k_chunker_iterations)
       THEN /\ kpc' = "ns_post"
            /\ UNCHANGED <<ns, arith>>
       ELSE LET width == ns.right - ns.left
                mid == ns.left + CDiv(Wrap(keyType, width), 2)
                middle == Wrap(keyType, mid)
            IN /\ arith' = arith \cup Fault(keyType, width)
                                 \cup Fault(keyType, mid)
               /\ IF middle >= ns.right \/ middle <= ns.left
                    THEN /\ ns' = [ns EXCEPT !.middle = middle]
                         /\ kpc' = "ns_post"
                    ELSE \E rows \in ExplainRows :
                           LET delta == IF rows > rows_per_chunk
                                          THEN rows - rows_per_chunk
                                          ELSE rows_per_chunk - rows
                               probed ==
                                 IF rows > rows_per_chunk
                                   THEN [ns EXCEPT !.middle = middle,
                                                   !.right = middle,
                                                   !.delta = delta,
                                                   !.probes = @ + 1]
                                   ELSE [ns EXCEPT !.middle = middle,
                                                   !.left = middle,
                                                   !.delta = delta,
                                                   !.probes = @ + 1]
                           IN IF delta <= accuracy
                                   \/ rows = ns.previous_row_count
                                THEN /\ ns' = probed
                                     /\ kpc' = "ns_post"
                                ELSE /\ ns' = [probed EXCEPT
                                                 !.previous_row_count = rows,
                                                 !.i = ns.i + 1]
                                     /\ kpc' = "ns_for"
  /\ UNCHANGED <<ranges_count, range_end, current, step, data_tasks, ranges>>

\* lines 697-711: after the bisection, give up or widen the search
NextStepPost ==
  /\ kpc = "ns_post"
  /\ ns' = IF ns.delta > accuracy
             THEN IF ns.previous_row_count >= rows_per_chunk
                       \/ ns.middle >= TableMax
                    THEN [ns EXCEPT !.retry = k_chunker_retries]
                    ELSE [ns EXCEPT !.retry = ns.retry + 1]
             ELSE ns
  /\ kpc' = "ns_while"
  /\ UNCHANGED <<ranges_count, range_end, current, step, data_tasks, ranges,
                 arith>>

\* variant: the step next_step returned is taken as it is
MutStepUnclamped(result) == result

\* line 731: step = std::max(next_step(current, step), 2)
clamp_step(result) == Max2(result, 2)

\* lines 731-753: the new step, the end of the range and its task
GenerateRangesApply ==
  /\ kpc = "gen_apply"
  /\ LET max == TableMax
         new_step == clamp_step(ns.result)
         bound == (max - new_step) + 1
         jump == (current + new_step) - 1
         strided == IF current > Wrap(keyType, bound) THEN max
                    ELSE Wrap(keyType, jump)
         rest == max - strided
         ending == IF Wrap(keyType, rest) <= CDiv(new_step, 4) THEN max
                   ELSE strided
         last_chunk == ending >= max
         range == [begin |-> to_string(current), end |-> to_string(ending),
                   type |-> keyType]
     IN /\ step' = new_step
        /\ arith' = arith \cup Fault(keyType, max - new_step)
                          \cup Fault(keyType, bound)
                          \cup (IF current > Wrap(keyType, bound) THEN {}
                                ELSE Fault(keyType, current + new_step)
                                       \cup Fault(keyType, jump))
                          \cup Fault(keyType, rest)
        /\ data_tasks' = Append(data_tasks,
                                RangedTask(range, to_string(ranges_count),
                                           ranges_count, last_chunk))
        /\ ranges_count' = ranges_count + 1
        /\ IF last_chunk
             THEN /\ current' = ending
                  /\ ranges' = ranges_count + 1
                  /\ kpc' = "finish"
             ELSE /\ current' = ending + 1
                  /\ ranges' = ranges
                  /\ kpc' = "gen"
  /\ ns' = NsIdle
  /\ UNCHANGED range_end

\* lines 762-803: one round of LIMIT-walking
LimitWalk ==
  /\ kpc = "limit"
  /\ LET where == IF 0 = ranges_count THEN <<>>
                  ELSE quote_value(range_end, keyType)
         first == LimitRow(where, 0)
         offset == Wrap("UInteger", rows_per_chunk - 1)
         last == LimitRow(where, offset)
     IN IF first.kind = "none"
          THEN \* fetch_one() returned no row and it is dereferenced
               /\ kpc' = "trapped"
               /\ UNCHANGED <<ranges_count, range_end, data_tasks, ranges,
                              arith>>
          ELSE IF m_worker_interrupt
            THEN /\ kpc' = "finish"
                 /\ ranges' = 0
                 /\ UNCHANGED <<ranges_count, range_end, data_tasks, arith>>
            ELSE /\ arith' = arith \cup (IF rows_per_chunk - 1 < 0
                                          THEN {"offset"} ELSE {})
                 /\ \E begin \in (IF first.kind = "null" THEN NullTexts
                               ELSE {first.text}) :
                   LET end == IF last.kind = "row" THEN last.text
                              ELSE total_end
                       range == [begin |-> begin, end |-> end,
                                 type |-> keyType]
                   IN /\ range_end' = end
                      /\ data_tasks' =
                           Append(data_tasks,
                                  RangedTask(range, to_string(ranges_count),
                                             ranges_count, end = total_end))
                      /\ ranges_count' = ranges_count + 1
                      /\ IF end # total_end
                           THEN kpc' = "limit" /\ ranges' = ranges
                           ELSE kpc' = "finish" /\ ranges' = ranges_count + 1
  /\ UNCHANGED <<current, step, ns>>

\* create_table_data_tasks, lines 564-567: no range, so one task for the
\* whole table
CreateTableDataTasksEnd ==
  /\ kpc = "finish"
  /\ data_tasks' = IF 0 = ranges THEN Append(data_tasks, WholeTableTask)
                   ELSE data_tasks
  /\ ranges' = IF 0 = ranges THEN 1 ELSE ranges
  /\ kpc' = "done"
  /\ UNCHANGED <<ranges_count, range_end, current, step, ns, arith>>

\* a step of the chunker leaves the table and the interrupt flag alone
Chunker(step_of_chunker) ==
  step_of_chunker /\ UNCHANGED <<tableVars, m_worker_interrupt>>

(***************************************************************************)
(* The life cycle of Dumper::run (Spec).                                   *)
(***************************************************************************)
\* most worker threads of a run (m_options.threads())
NumWorkers == 3
\* most tables in scope of a run
NumTables == 2
\* most ranges the chunker makes of one table
MaxChunks == 2
\* most times the operator interrupts one run
MaxInterrupts == 1
\* most operations that fail in one run
MaxFaults == 2

VARIABLES
  m_options,        \* [use_single_file, is_dry_run, dump_ddl]
  cpc,              \* position of the coordinator inside run / do_run
  citer,            \* loop index of the coordinator's current loop
  threads,          \* worker threads started by spawn_scoped_thread
  m_workers,        \* m_workers.size()
  m_count,          \* Synchronize_workers::m_count
  wpc,              \* position of each worker inside Table_worker::run
  wtask,            \* the task a worker is executing
  wranges,          \* ranges_count of the ChunkTable task a worker executes
  m_worker_exceptions, \* one slot per worker
  m_worker_tasks,   \* the task queue, one FIFO per priority
  m_chunking_tasks,
  m_main_thread_finished_producing_chunking_tasks,
  m_worker_writers, \* files of the writers the Dumper owns
  files,            \* output directory: the data files
  dtask,            \* what became of the DumpRange task of each file
  done_json,        \* @.done.json has been written
  run_exception,    \* what run() threw
  interrupts,       \* times the operator has interrupted
  kill_queries,     \* KILL QUERY statements issued for the primary session
  faults,           \* operations that have failed
  pushed,           \* tasks (other than null) ever pushed to the queue
  executed,         \* tasks executed to completion
  chunk_cancelled   \* the operator interrupted while a ChunkTable task ran

runVars == <<m_options, cpc, citer, threads, m_workers, m_count, wpc, wtask,
             wranges, m_worker_exceptions, m_worker_tasks, m_chunking_tasks,
             m_main_thread_finished_producing_chunking_tasks,
             m_worker_writers, files, dtask, done_json, run_exception,
             interrupts, kill_queries, faults, pushed, executed, chunk_cancelled>>

Workers == 0..(NumWorkers - 1)
Tables == 1..NumTables

\* ---- exceptions ----
NoException == [what |-> "", worker |-> -1]
WorkerException(w) == [what |-> "worker task failed", worker |-> w]
CoordinatorException == [what |-> "coordinator step failed", worker |-> -1]
\* lines 2795-2800, 1607: a privilege is missing, or compatibility issues
\* were found
ValidationError == [what |-> "validation failed", worker |-> -1]
InterruptedByUser == [what |-> "Interrupted by user", worker |-> -1]
FatalError == [what |-> "Fatal error during dump", worker |-> -1]

\* ---- data files ----
\* one per DumpRange task in multi-file mode
FileIds == Tables \X (-1..(MaxChunks - 1))
\* m_output_file, the one file of single-file mode
OutputFile == <<0, 0>>
AllFiles == FileIds \cup {OutputFile}

\* ---- tasks ----
\* writer is Table_data_task::writer, the file of the Dump_writer the task
\* was handed; the other tasks have none
NoTask == [kind |-> "none", table |-> 0, idx |-> 0, writer |-> OutputFile]
NullTask == [kind |-> "null", table |-> 0, idx |-> 0, writer |-> OutputFile]
DdlTask(t) == [kind |-> "ddl", table |-> t, idx |-> 0, writer |-> OutputFile]
MetadataTask(t) ==
  [kind |-> "metadata", table |-> t, idx |-> 0, writer |-> OutputFile]
ChunkTableTask(t) ==
  [kind |-> "chunk", table |-> t, idx |-> 0, writer |-> OutputFile]
\* idx = -1 is the task of the whole table (create_table_data_task(table))
DumpRangeTask(t, idx, writer) ==
  [kind |-> "data", table |-> t, idx |-> idx, writer |-> writer]

NoFile == [exists |-> FALSE, in_progress |-> FALSE, open |-> FALSE,
           preamble |-> FALSE, postamble |-> FALSE]


\* ---- the task queue (shcore::Synchronized_queue) ----
EmptyQueue == [HIGH |-> <<>>, MEDIUM |-> <<>>, LOW |-> <<>>]

push(q, task, priority) == [q EXCEPT ![priority] = Append(@, task)]

RECURSIVE shutdown(_, _)
\* one null task for each of n listeners, behind the tasks already waiting
shutdown(q, n) ==
  IF n = 0 THEN q ELSE shutdown(push(q, NullTask, "LOW"), n - 1)

QueueEmpty(q) == q.HIGH = <<>> /\ q.MEDIUM = <<>> /\ q.LOW = <<>>

\* the priority pop takes from: the highest one that is not empty
PopPriority(q) ==
  IF q.HIGH # <<>> THEN "HIGH" ELSE IF q.MEDIUM # <<>> THEN "MEDIUM" ELSE "LOW"

Front(q) == Head(q[PopPriority(q)])
Popped(q) == [q EXCEPT ![PopPriority(q)] = Tail(@)]

\* ---- Dumper::emergency_shutdown ----
\* variant: one null task, whatever the number of workers
MutEmergencyOneNull(q) == IF m_workers > 0 THEN shutdown(q, 1) ELSE q

\* lines 2442-2446
emergency_shutdown(q) == IF m_workers > 0 THEN shutdown(q, m_workers) ELSE q

\* a ChunkTable task is executing
ChunkTableRunning == \E w \in Workers : wpc[w] \in {"chunk", "chunk_end"}

\* line 2440
RaiseInterrupt == m_worker_interrupt' = TRUE

\* ---- the coordinator: Dumper::run and Dumper::do_run ----
CoordinatorOnly ==
  UNCHANGED <<m_options, wpc, wtask, wranges, m_worker_exceptions, files,
              dtask, interrupts, kill_queries, pushed, executed>>

\* the exception is recorded and do_run goes on to its next statements
MutContinueAfterError(exception) ==
  /\ cpc' = "check_interrupt"
  /\ run_exception' = exception

\* an operation of the coordinator throws: do_run is left by the exception
\* and run() catches it (line 1070)
CoordinatorThrows(exception) ==
  /\ cpc' = "kill_workers"
  /\ run_exception' = exception

CanFail == faults < MaxFaults

\* lines 1083-1090
DoRunBegin ==
  /\ cpc = "do_run"
  /\ m_worker_interrupt' = FALSE
  /\ cpc' = "acquire_read_locks"
  /\ UNCHANGED <<citer, threads, m_workers, m_count, m_worker_tasks,
                 m_chunking_tasks,
                 m_main_thread_finished_producing_chunking_tasks,
                 m_worker_writers, done_json, run_exception, faults,
                 chunk_cancelled>>
  /\ CoordinatorOnly

\* a step of do_run that only moves on, or fails with an error of its own
CoordinatorStep(from, to) ==
  /\ cpc = from
  /\ \/ cpc' = to /\ UNCHANGED <<run_exception, faults>>
     \/ /\ CanFail
        /\ faults' = faults + 1
        /\ CoordinatorThrows(CoordinatorException)
  /\ UNCHANGED <<m_worker_interrupt, citer, threads, m_workers, m_count,
                 m_worker_tasks, m_chunking_tasks,
                 m_main_thread_finished_producing_chunking_tasks,
                 m_worker_writers, done_json, chunk_cancelled>>
  /\ CoordinatorOnly

\* lines 1092-1099: open_session, acquire_read_locks
AcquireReadLocks == CoordinatorStep("acquire_read_locks", "check_interrupt")

\* lines 1101-1103
CheckInterrupt ==
  /\ cpc = "check_interrupt"
  /\ cpc' = IF m_worker_interrupt THEN "run_check" ELSE "create_worker_threads"
  /\ UNCHANGED <<m_worker_interrupt, citer, threads, m_workers, m_count,
                 m_worker_tasks, m_chunking_tasks,
                 m_main_thread_finished_producing_chunking_tasks,
                 m_worker_writers, done_json, run_exception, faults,
                 chunk_cancelled>>
  /\ CoordinatorOnly

\* lines 1663-1666: one more thread runs Table_worker::run
SpawnThread ==
  /\ cpc = "create_worker_threads"
  /\ threads = m_workers
  /\ threads < m_options.threads
  /\ threads' = threads + 1
  /\ wpc' = [wpc EXCEPT ![threads] = "open_session"]
  /\ UNCHANGED <<m_worker_interrupt, cpc, citer, m_workers, m_count,
                 m_worker_tasks, m_chunking_tasks,
                 m_main_thread_finished_producing_chunking_tasks,
                 m_worker_writers, done_json, run_exception, faults,
                 chunk_cancelled>>
  /\ UNCHANGED <<m_options, wtask, wranges, m_worker_exceptions, files,
                 dtask, interrupts, kill_queries, pushed, executed>>

\* line 1667: the thread is entered into m_workers
EmplaceWorker ==
  /\ cpc = "create_worker_threads"
  /\ threads = m_workers + 1
  /\ m_workers' = m_workers + 1
  /\ cpc' = IF m_workers' = m_options.threads
            THEN "initialize_instance_cache"
            ELSE cpc
  /\ UNCHANGED <<m_worker_interrupt, citer, threads, m_count,
                 m_worker_tasks, m_chunking_tasks,
                 m_main_thread_finished_producing_chunking_tasks,
                 m_worker_writers, done_json, run_exception, faults,
                 chunk_cancelled>>
  /\ CoordinatorOnly

\* line 1108
InitializeInstanceCache ==
  CoordinatorStep("initialize_instance_cache", "wait_for_workers")

\* lines 1110, 1671-1673, 265-269
WaitForWorkers ==
  /\ cpc = "wait_for_workers"
  /\ m_count >= m_workers
  /\ m_count' = m_count - m_workers
  /\ cpc' = "lock_instance"
  /\ UNCHANGED <<m_worker_interrupt, citer, threads, m_workers,
                 m_worker_tasks, m_chunking_tasks,
                 m_main_thread_finished_producing_chunking_tasks,
                 m_worker_writers, done_json, run_exception, faults,
                 chunk_cancelled>>
  /\ CoordinatorOnly

\* lines 1112-1123: lock_instance, then the read locks are released
LockInstance == CoordinatorStep("lock_instance", "validate")

\* lines 1125-1130: create_schema_tasks, validate_privileges, validate_mds,
\* which throw when a privilege is missing or an issue is found
Validate ==
  /\ cpc = "validate"
  /\ \/ cpc' = "initialize_dump" /\ UNCHANGED <<run_exception, faults>>
     \/ /\ CanFail
        /\ faults' = faults + 1
        /\ CoordinatorThrows(ValidationError)
  /\ UNCHANGED <<m_worker_interrupt, citer, threads, m_workers, m_count,
                 m_worker_tasks, m_chunking_tasks,
                 m_main_thread_finished_producing_chunking_tasks,
                 m_worker_writers, done_json, chunk_cancelled>>
  /\ CoordinatorOnly


\* lines 1851-1877: one HIGH task for the schema (table 0), one per table
CreateSchemaDdlTasks ==
  /\ cpc = "create_schema_ddl_tasks"
  /\ IF m_options.dump_ddl /\ citer <= m_options.tables
     THEN /\ m_worker_tasks' = push(m_worker_tasks, DdlTask(citer), "HIGH")
          /\ pushed' = pushed + 1
          /\ citer' = citer + 1
          /\ UNCHANGED cpc
     ELSE /\ cpc' = "create_table_tasks"
          /\ citer' = 0
          /\ UNCHANGED <<m_worker_tasks, pushed>>
  /\ UNCHANGED <<m_worker_interrupt, threads, m_workers, m_count,
                 m_chunking_tasks,
                 m_main_thread_finished_producing_chunking_tasks,
                 m_worker_writers, done_json, run_exception, faults,
                 chunk_cancelled>>
  /\ UNCHANGED <<m_options, wpc, wtask, wranges, m_worker_exceptions, files,
                 dtask, interrupts, kill_queries, executed>>

\* lines 1880-1900 and push_table_task (1918-1969), one table at a time
CreateTableTasks ==
  /\ cpc = "create_table_tasks"
  /\ IF citer = 0
     THEN /\ m_chunking_tasks' = 0
          /\ m_main_thread_finished_producing_chunking_tasks' = FALSE
          /\ citer' = 1
          /\ UNCHANGED <<cpc, m_worker_tasks, pushed>>
     ELSE IF citer <= m_options.tables
     THEN /\ citer' = citer + 1
          /\ IF m_options.is_dry_run
             THEN UNCHANGED <<m_worker_tasks, pushed, m_chunking_tasks>>
             ELSE /\ m_worker_tasks' =
                       push(push(m_worker_tasks, MetadataTask(citer), "HIGH"),
                            ChunkTableTask(citer), "MEDIUM")
                  /\ pushed' = pushed + 2
                  /\ m_chunking_tasks' = m_chunking_tasks + 1
          /\ UNCHANGED <<cpc,
                         m_main_thread_finished_producing_chunking_tasks>>
     ELSE /\ m_main_thread_finished_producing_chunking_tasks' = TRUE
          /\ cpc' = "maybe_push_shutdown_tasks"
          /\ UNCHANGED <<citer, m_worker_tasks, pushed, m_chunking_tasks>>
  /\ UNCHANGED <<m_worker_interrupt, threads, m_workers, m_count,
                 m_worker_writers, done_json, run_exception, faults,
                 chunk_cancelled>>
  /\ UNCHANGED <<m_options, wpc, wtask, wranges, m_worker_exceptions, files,
                 dtask, interrupts, kill_queries, executed>>

\* variant: the null tasks are published while tables are still chunked
MutShutdownWhileChunking(q, chunking_tasks) == shutdown(q, m_workers)

\* variant: the null tasks are never published
MutNeverShutdown(q, chunking_tasks) == q

\* variant: the flag of the main thread is not consulted
MutShutdownBeforeProduced(q, chunking_tasks) ==
  IF 0 = chunking_tasks THEN shutdown(q, m_workers) ELSE q

\* lines 1675-1680
maybe_push_shutdown_tasks(q, chunking_tasks) ==
  IF 0 = chunking_tasks /\ m_main_thread_finished_producing_chunking_tasks
  THEN shutdown(q, m_workers) ELSE q

\* line 1151
MaybePushShutdownTasks ==
  /\ cpc = "maybe_push_shutdown_tasks"
  /\ m_worker_tasks' =
       maybe_push_shutdown_tasks(m_worker_tasks, m_chunking_tasks)
  /\ cpc' = "wait_for_all_tasks"
  /\ UNCHANGED <<m_worker_interrupt, citer, threads, m_workers, m_count,
                 m_chunking_tasks,
                 m_main_thread_finished_producing_chunking_tasks,
                 m_worker_writers, done_json, run_exception, faults,
                 chunk_cancelled>>
  /\ CoordinatorOnly

\* variant: the file is renamed and left open
MutCloseFileRenameOnly(file) ==
  IF file.exists THEN [file EXCEPT !.in_progress = FALSE] ELSE file

\* lines 2033-2047: close the output and drop the in-progress extension
close_file(file) ==
  IF file.exists THEN [file EXCEPT !.open = FALSE, !.in_progress = FALSE]
  ELSE file

\* the threads are detached: wait_for_all_tasks does not wait for them
MutJoinWithoutWaiting == TRUE

\* lines 1688-1690: every thread of m_workers can be joined
AllWorkersJoined == \A w \in Workers : w < m_workers => wpc[w] = "exited"

\* lines 1694-1701
wait_for_all_tasks ==
  /\ files' = [f \in AllFiles |->
                 IF /\ m_options.use_single_file
                    /\ \E i \in 1..Len(m_worker_writers) :
                         m_worker_writers[i] = f
                 THEN close_file(files[f]) ELSE files[f]]
  /\ m_workers' = 0
  /\ m_worker_writers' = <<>>

\* line 1152
WaitForAllTasks ==
  /\ cpc = "wait_for_all_tasks"
  /\ AllWorkersJoined
  /\ wait_for_all_tasks
  /\ cpc' = "finish"
  /\ UNCHANGED <<m_worker_interrupt, citer, threads, m_count, m_worker_tasks,
                 m_chunking_tasks,
                 m_main_thread_finished_producing_chunking_tasks, done_json,
                 run_exception, faults, chunk_cancelled>>
  /\ UNCHANGED <<m_options, wpc, wtask, wranges, m_worker_exceptions, dtask,
                 interrupts, kill_queries, pushed, executed>>

\* lines 1154-1158: write_dump_finished_metadata writes @.done.json
Finish ==
  /\ cpc = "finish"
  /\ IF ~m_options.is_dry_run /\ ~m_worker_interrupt
     THEN \/ /\ done_json' = TRUE
             /\ cpc' = "rethrow"
             /\ UNCHANGED <<run_exception, faults>>
          \/ /\ CanFail
             /\ faults' = faults + 1
             /\ CoordinatorThrows(CoordinatorException)
             /\ UNCHANGED done_json
     ELSE /\ cpc' = "rethrow"
          /\ UNCHANGED <<done_json, run_exception, faults>>
  /\ UNCHANGED <<m_worker_interrupt, citer, threads, m_workers, m_count,
                 m_worker_tasks, m_chunking_tasks,
                 m_main_thread_finished_producing_chunking_tasks,
                 m_worker_writers, chunk_cancelled>>
  /\ CoordinatorOnly

\* the slots of m_worker_exceptions that hold an exception
NonEmptySlots == {w \in Workers : m_worker_exceptions[w] # NoException}

\* variant: the exceptions of the workers are dropped
MutRethrowNothing == NoException

\* lines 2431-2437, and the return of do_run
rethrow == IF NonEmptySlots # {} THEN FatalError ELSE NoException

Rethrow ==
  /\ cpc = "rethrow"
  /\ IF rethrow # NoException
     THEN CoordinatorThrows(rethrow)
     ELSE cpc' = "run_check" /\ UNCHANGED run_exception
  /\ UNCHANGED <<m_worker_interrupt, citer, threads, m_workers, m_count,
                 m_worker_tasks, m_chunking_tasks,
                 m_main_thread_finished_producing_chunking_tasks,
                 m_worker_writers, done_json, faults, chunk_cancelled>>
  /\ CoordinatorOnly

\* lines 1075-1079: do_run has returned
RunCheck ==
  /\ cpc = "run_check"
  /\ IF m_worker_interrupt
     THEN cpc' = "threw" /\ run_exception' = InterruptedByUser
     ELSE cpc' = "returned" /\ UNCHANGED run_exception
  /\ UNCHANGED <<m_worker_interrupt, citer, threads, m_workers, m_count,
                 m_worker_tasks, m_chunking_tasks,
                 m_main_thread_finished_producing_chunking_tasks,
                 m_worker_writers, done_json, faults, chunk_cancelled>>
  /\ CoordinatorOnly

\* lines 1071, 2449-2450: kill_workers begins with emergency_shutdown
KillWorkers ==
  /\ cpc = "kill_workers"
  /\ RaiseInterrupt
  /\ m_worker_tasks' = emergency_shutdown(m_worker_tasks)
  /\ cpc' = "kill_join"
  /\ UNCHANGED <<citer, threads, m_workers, m_count, m_chunking_tasks,
                 m_main_thread_finished_producing_chunking_tasks,
                 m_worker_writers, done_json, run_exception, faults,
                 chunk_cancelled>>
  /\ CoordinatorOnly

\* lines 2451, 1072: wait_for_all_tasks, then the exception leaves run()
KillJoin ==
  /\ cpc = "kill_join"
  /\ AllWorkersJoined
  /\ wait_for_all_tasks
  /\ cpc' = "threw"
  /\ UNCHANGED <<m_worker_interrupt, citer, threads, m_count, m_worker_tasks,
                 m_chunking_tasks,
                 m_main_thread_finished_producing_chunking_tasks, done_json,
                 run_exception, faults, chunk_cancelled>>
  /\ UNCHANGED <<m_options, wpc, wtask, wranges, m_worker_exceptions, dtask,
                 interrupts, kill_queries, pushed, executed>>

\* the Interrupt_handler of do_run exists (lines 1085-1174)
InDoRun ==
  cpc \in {"acquire_read_locks", "check_interrupt", "create_worker_threads",
           "initialize_instance_cache", "wait_for_workers", "lock_instance",
           "validate", "initialize_dump", "create_schema_ddl_tasks",
           "create_table_tasks", "maybe_push_shutdown_tasks",
           "wait_for_all_tasks", "finish", "rethrow"}

\* lines 2636-2666: KILL QUERY for the session of the coordinator, through
\* a connection of its own, if there is such a session
kill_query(count, has_session) == IF has_session THEN count + 1 ELSE count

\* lines 1085-1090: the operator interrupts; the handler runs
\* emergency_shutdown and kill_query.  The session of the coordinator is
\* opened at line 1092, at the start of the step acquire_read_locks
OperatorInterrupt ==
  /\ InDoRun
  /\ interrupts < MaxInterrupts
  /\ interrupts' = interrupts + 1
  /\ \E has_session \in (IF cpc = "acquire_read_locks" THEN BOOLEAN
                          ELSE {TRUE}) :
       kill_queries' = kill_query(kill_queries, has_session)
  /\ RaiseInterrupt
  /\ chunk_cancelled' = (chunk_cancelled \/ ChunkTableRunning)
  /\ m_worker_tasks' = emergency_shutdown(m_worker_tasks)
  /\ UNCHANGED <<cpc, citer, threads, m_workers, m_count, m_chunking_tasks,
                 m_main_thread_finished_producing_chunking_tasks,
                 m_worker_writers, done_json, run_exception, faults>>
  /\ UNCHANGED <<m_options, wpc, wtask, wranges, m_worker_exceptions, files,
                 dtask, pushed, executed>>


\* ---- the workers: Dumper::Table_worker ----
WorkerOnly ==
  UNCHANGED <<m_options, cpc, citer, threads, m_workers,
              m_main_thread_finished_producing_chunking_tasks, done_json,
              run_exception, interrupts, kill_queries>>

\* lines 327-331: after func(this) the worker leaves if the flag is up
AfterTask == IF m_worker_interrupt THEN "exited" ELSE "pop"

\* the file a DumpRange task writes (get_table_data_writer, 1979-2008)
FileOf(task) == task.writer

\* an operation of worker w throws; the catch of run() (335-339) is next
WorkerThrows(w) ==
  /\ CanFail
  /\ faults' = faults + 1
  /\ wpc' = [wpc EXCEPT ![w] = "caught"]

\* lines 271-277: Synchronize_workers::notify
notify(count) == count + 1

\* variant: the coordinator is notified only when the session was set up
MutNotifyOnSuccess(count, thrown) == IF thrown THEN count ELSE notify(count)

\* lines 347-348: notify_dumper, the scope guard of open_session, notifies
\* however open_session is left
notify_dumper(count, thrown) == notify(count)

\* lines 345-355
OpenSession(w) ==
  /\ wpc[w] = "open_session"
  /\ \/ wpc' = [wpc EXCEPT ![w] = "pop"] /\ UNCHANGED faults
     \/ WorkerThrows(w)
  /\ m_count' = notify_dumper(m_count, wpc'[w] = "caught")
  /\ UNCHANGED <<m_worker_interrupt, wtask, wranges, m_worker_exceptions,
                 m_worker_tasks, m_chunking_tasks, m_worker_writers, files,
                 dtask, pushed, executed, chunk_cancelled>>
  /\ WorkerOnly

\* lines 813-821 (Exception_strategy::ABORT), then run() returns
HandleException(w) ==
  /\ wpc[w] = "caught"
  /\ m_worker_exceptions' =
       [m_worker_exceptions EXCEPT ![w] = WorkerException(w)]
  /\ RaiseInterrupt
  /\ m_worker_tasks' = emergency_shutdown(m_worker_tasks)
  /\ wpc' = [wpc EXCEPT ![w] = "exited"]
  /\ wtask' = [wtask EXCEPT ![w] = NoTask]
  /\ UNCHANGED <<m_count, wranges, m_chunking_tasks, m_worker_writers, files,
                 dtask, faults, pushed, executed, chunk_cancelled>>
  /\ WorkerOnly

\* variant: the flag is not tested between pop and the call of the task
MutDispatchWithoutTest(task) ==
  IF task.kind = "null" THEN "exited"
  ELSE IF task.kind = "chunk" THEN "chunk"
  ELSE IF task.kind = "data" THEN "dump_begin"
  ELSE "ddl"

\* where Table_worker::run goes with the task it popped (lines 319-327)
Dispatch(task) ==
  IF m_worker_interrupt \/ task.kind = "null" THEN "exited"
  ELSE IF task.kind = "chunk" THEN "chunk"
  ELSE IF task.kind = "data" THEN "dump_begin"
  ELSE "ddl"

\* lines 317-327
Pop(w) ==
  /\ wpc[w] = "pop"
  /\ ~QueueEmpty(m_worker_tasks)
  /\ m_worker_tasks' = Popped(m_worker_tasks)
  /\ wpc' = [wpc EXCEPT ![w] = Dispatch(Front(m_worker_tasks))]
  /\ wtask' = [wtask EXCEPT ![w] =
                 IF Dispatch(Front(m_worker_tasks)) = "exited" THEN NoTask
                 ELSE Front(m_worker_tasks)]
  /\ wranges' = [wranges EXCEPT ![w] = 0]
  /\ UNCHANGED <<m_worker_interrupt, m_count, m_worker_exceptions,
                 m_chunking_tasks, m_worker_writers, files, dtask, faults,
                 pushed, executed, chunk_cancelled>>
  /\ WorkerOnly

\* dump_schema_ddl, dump_table_ddl (823-850), write_table_metadata (557-559)
WriteDdl(w) ==
  /\ wpc[w] = "ddl"
  /\ \/ /\ wpc' = [wpc EXCEPT ![w] = AfterTask]
        /\ wtask' = [wtask EXCEPT ![w] = NoTask]
        /\ executed' = executed + 1
        /\ UNCHANGED faults
     \/ WorkerThrows(w) /\ UNCHANGED <<wtask, executed>>
  /\ UNCHANGED <<m_worker_interrupt, m_count, wranges, m_worker_exceptions,
                 m_worker_tasks, m_chunking_tasks, m_worker_writers, files,
                 dtask, pushed, chunk_cancelled>>
  /\ WorkerOnly

\* lines 1975-2008: a new writer unless the single file already has one;
\* no file is made before the writer is opened
get_table_data_writer(writers, file) ==
  IF ~m_options.use_single_file \/ writers = <<>>
  THEN Append(writers,
              IF m_options.use_single_file THEN OutputFile ELSE file)
  ELSE writers

\* line 2008: m_worker_writers.back().get()
back(writers) == writers[Len(writers)]

\* create_table_data_task (518-555): the task holds the writer that
\* get_table_data_writer returned; push_table_data_task (502-516)
create_table_data_task(q, writers, t, idx) ==
  push(q, DumpRangeTask(t, idx, back(writers)), "LOW")

\* create_ranged_tasks (717-754, 762-803): one more range becomes a task
ChunkEmit(w) ==
  /\ wpc[w] = "chunk"
  /\ m_options.split
  /\ wranges[w] < MaxChunks
  /\ LET file == <<wtask[w].table, wranges[w]>>
         writers == get_table_data_writer(m_worker_writers, file)
     IN
       /\ dtask' = [dtask EXCEPT ![file] = "queued"]
       /\ m_worker_writers' = writers
       /\ m_worker_tasks' =
            create_table_data_task(m_worker_tasks, writers, file[1], file[2])
  /\ pushed' = pushed + 1
  /\ wranges' = [wranges EXCEPT ![w] = @ + 1]
  /\ \E last_chunk \in BOOLEAN :
       /\ wranges[w] + 1 = MaxChunks => last_chunk
       /\ wpc' = [wpc EXCEPT ![w] = IF last_chunk THEN "chunk_end" ELSE @]
  /\ UNCHANGED <<m_worker_interrupt, m_count, wtask, m_worker_exceptions,
                 m_chunking_tasks, files, faults, executed, chunk_cancelled>>
  /\ WorkerOnly

\* create_ranged_tasks returns 0: the table is not chunked (578-580) or is
\* empty (591-593), or LIMIT-walking saw the interrupt flag (784-795)
ChunkReturnsZero(w) ==
  /\ wpc[w] = "chunk"
  /\ \/ wranges[w] = 0
     \/ m_options.split /\ m_worker_interrupt
  /\ wranges' = [wranges EXCEPT ![w] = 0]
  /\ wpc' = [wpc EXCEPT ![w] = "chunk_end"]
  /\ UNCHANGED <<m_worker_interrupt, m_count, wtask, m_worker_exceptions,
                 m_worker_tasks, m_chunking_tasks, m_worker_writers, files,
                 dtask, faults, pushed, executed, chunk_cancelled>>
  /\ WorkerOnly

\* a query of the chunker fails
ChunkFails(w) ==
  /\ wpc[w] = "chunk"
  /\ WorkerThrows(w)
  /\ UNCHANGED <<m_worker_interrupt, m_count, wtask, wranges,
                 m_worker_exceptions, m_worker_tasks, m_chunking_tasks,
                 m_worker_writers, files, dtask, pushed, executed,
                 chunk_cancelled>>
  /\ WorkerOnly

\* lines 564-574: the task of the whole table when there are no ranges,
\* then chunking_task_finished (1682-1685)
ChunkEnd(w) ==
  /\ wpc[w] = "chunk_end"
  /\ LET file == <<wtask[w].table, -1>>
         whole == wranges[w] = 0
         writers == IF whole
                    THEN get_table_data_writer(m_worker_writers, file)
                    ELSE m_worker_writers
         queue == IF whole
                  THEN create_table_data_task(m_worker_tasks, writers,
                                              file[1], -1)
                  ELSE m_worker_tasks
     IN
       /\ dtask' = IF whole THEN [dtask EXCEPT ![file] = "queued"] ELSE dtask
       /\ m_worker_writers' = writers
       /\ pushed' = IF whole THEN pushed + 1 ELSE pushed
       /\ m_chunking_tasks' = m_chunking_tasks - 1
       /\ m_worker_tasks' =
            maybe_push_shutdown_tasks(queue, m_chunking_tasks - 1)
  /\ executed' = executed + 1
  /\ wpc' = [wpc EXCEPT ![w] = AfterTask]
  /\ wtask' = [wtask EXCEPT ![w] = NoTask]
  /\ UNCHANGED <<m_worker_interrupt, m_count, wranges, m_worker_exceptions,
                 files, faults, chunk_cancelled>>
  /\ WorkerOnly

\* ---- dump_table_data (406-500) ----
TaskId(w) == <<wtask[w].table, wtask[w].idx>>

\* lines 419-441: the query, writer->open(), the preamble
DumpBegin(w) ==
  /\ wpc[w] = "dump_begin"
  /\ \/ /\ files' = [files EXCEPT ![FileOf(wtask[w])] =
                       [exists |-> TRUE,
                        in_progress |-> ~m_options.use_single_file,
                        open |-> TRUE, preamble |-> TRUE,
                        postamble |-> FALSE]]
        /\ dtask' = [dtask EXCEPT ![TaskId(w)] = "running"]
        /\ wpc' = [wpc EXCEPT ![w] = "dump_rows"]
        /\ UNCHANGED faults
     \/ /\ WorkerThrows(w)
        /\ dtask' = [dtask EXCEPT ![TaskId(w)] = "threw"]
        /\ UNCHANGED files
  /\ UNCHANGED <<m_worker_interrupt, m_count, wtask, wranges,
                 m_worker_exceptions, m_worker_tasks, m_chunking_tasks,
                 m_worker_writers, pushed, executed, chunk_cancelled>>
  /\ WorkerOnly

\* lines 443-479: the row loop leaves at a row fetched while the flag is up;
\* after the last row the postamble is written
DumpRows(w) ==
  /\ wpc[w] = "dump_rows"
  /\ \/ /\ m_worker_interrupt
        /\ dtask' = [dtask EXCEPT ![TaskId(w)] = "interrupted"]
        /\ wpc' = [wpc EXCEPT ![w] = "exited"]
        /\ wtask' = [wtask EXCEPT ![w] = NoTask]
        /\ UNCHANGED <<files, faults>>
     \/ /\ files' = [files EXCEPT ![FileOf(wtask[w])].postamble = TRUE]
        /\ wpc' = [wpc EXCEPT ![w] = "dump_finish"]
        /\ UNCHANGED <<dtask, wtask, faults>>
     \/ /\ WorkerThrows(w)
        /\ dtask' = [dtask EXCEPT ![TaskId(w)] = "threw"]
        /\ UNCHANGED <<files, wtask>>
  /\ UNCHANGED <<m_worker_interrupt, m_count, wranges, m_worker_exceptions,
                 m_worker_tasks, m_chunking_tasks, m_worker_writers, pushed,
                 executed, chunk_cancelled>>
  /\ WorkerOnly

\* variant: the file of a finished task keeps its in-progress name
MutFinishWritingKeepsName(fs, file) ==
  [fs EXCEPT ![file].open = FALSE]

\* lines 2011-2031
finish_writing(fs, file) ==
  IF ~m_options.use_single_file
  THEN [fs EXCEPT ![file] = close_file(fs[file])] ELSE fs

\* line 497: finish_writing closes and renames the file of the task
DumpFinish(w) ==
  /\ wpc[w] = "dump_finish"
  /\ \/ /\ files' = finish_writing(files, FileOf(wtask[w]))
        /\ m_worker_writers' =
             IF ~m_options.use_single_file
             THEN SelectSeq(m_worker_writers,
                            LAMBDA f : f # FileOf(wtask[w]))
             ELSE m_worker_writers
        /\ dtask' = [dtask EXCEPT ![TaskId(w)] = "finished"]
        /\ executed' = executed + 1
        /\ wpc' = [wpc EXCEPT ![w] = AfterTask]
        /\ wtask' = [wtask EXCEPT ![w] = NoTask]
        /\ UNCHANGED faults
     \/ /\ WorkerThrows(w)
        /\ dtask' = [dtask EXCEPT ![TaskId(w)] = "threw"]
        /\ UNCHANGED <<files, m_worker_writers, executed, wtask>>
  /\ UNCHANGED <<m_worker_interrupt, m_count, wranges, m_worker_exceptions,
                 m_worker_tasks, m_chunking_tasks, pushed, chunk_cancelled>>
  /\ WorkerOnly


(***************************************************************************)
(* The read locks and the consistent snapshots (SpecLock): do_run from     *)
(* acquire_read_locks to release_read_locks, with m_options.consistent_dump *)
(* set, against a server on which other sessions commit writes.            *)
(***************************************************************************)
\* schemas in scope
NumSchemas == 2
\* tables of each schema
TablesPerSchema == 2
\* most writes other sessions commit
MaxWrites == 2

VARIABLES
  m_ftwrl_failed,
  small_packet,     \* max_allowed_packet holds one table of a statement
  global_lock,      \* the coordinator's session holds the global read lock
  table_locks,      \* tables the coordinator's session holds READ locks on
  db_version,       \* writes committed to the tables in scope
  snapshot,         \* per session: db_version its snapshot was taken at
  under_lock,       \* per session: the read lock was held at that moment
  read_lock_taken   \* history: the read lock acquire_read_locks obtained

lockVars == <<m_ftwrl_failed, small_packet, global_lock, table_locks,
              db_version, snapshot, under_lock, read_lock_taken>>

\* the session of the coordinator, beside those of the workers
Coordinator == -1
Sessions == Workers \cup {Coordinator}
NoSnapshot == -1

\* the grant tables of schema mysql, locked by one statement (1267-1282)
SystemTables == {<<0, 0>>}
\* the tables that are going to be dumped
InScopeTables == (1..NumSchemas) \X (1..TablesPerSchema)

\* lines 1301-1323: the LOCK TABLES statements of schema s, each the set of
\* tables it names; a statement is cut where it would overflow the packet
SchemaStatements(s) ==
  IF small_packet
  THEN [t \in 1..TablesPerSchema |-> {<<s, t>>}]
  ELSE <<{<<s, t>> : t \in 1..TablesPerSchema}>>

RECURSIVE StatementsFrom(_)
StatementsFrom(s) ==
  IF s > NumSchemas THEN <<>>
  ELSE SchemaStatements(s) \o StatementsFrom(s + 1)

\* every LOCK TABLES statement of lock_all_tables, in order
LockStatements == <<SystemTables>> \o StatementsFrom(1)

\* the server: LOCK TABLES first releases the table locks the session holds,
\* then takes the locks it names
LockTables(held, named) == named

\* the coordinator holds the read lock: the global one, or READ locks on
\* all the tables in scope
HoldsReadLock == global_lock \/ InScopeTables \subseteq table_locks

\* START TRANSACTION WITH CONSISTENT SNAPSHOT (1404-1411) in session s,
\* while the coordinator holds the read lock or not
start_transaction(s, holds_read_lock) ==
  /\ snapshot' = [snapshot EXCEPT ![s] = db_version]
  /\ under_lock' = [under_lock EXCEPT ![s] = holds_read_lock]

LockStepOnly ==
  UNCHANGED <<m_options, citer, threads, m_workers, m_count, wpc, wtask,
              wranges, m_worker_exceptions, m_worker_tasks, m_chunking_tasks,
              m_main_thread_finished_producing_chunking_tasks,
              m_worker_writers, files, dtask, done_json, interrupts, kill_queries, faults,
              pushed, executed, chunk_cancelled, m_worker_interrupt>>

\* lines 1343-1349: the global read lock is granted, the transaction of the
\* coordinator starts under it
FlushTablesWithReadLock ==
  /\ cpc = "acquire_read_locks"
  /\ global_lock' = TRUE
  /\ read_lock_taken' = "global"
  /\ start_transaction(Coordinator, TRUE)
  /\ cpc' = "check_interrupt"
  /\ UNCHANGED <<m_ftwrl_failed, small_packet, table_locks, db_version,
                 run_exception>>
  /\ LockStepOnly

\* lines 1350-1378: FLUSH TABLES WITH READ LOCK fails; on an access-denied
\* error lock_all_tables is tried, any other error leaves run()
FlushTablesFails ==
  /\ cpc = "acquire_read_locks"
  /\ m_ftwrl_failed' = TRUE
  /\ \/ cpc' = "lock_all_tables" /\ UNCHANGED run_exception
     \/ CoordinatorThrows(CoordinatorException)
  /\ UNCHANGED <<small_packet, global_lock, table_locks, db_version, snapshot,
                 under_lock, read_lock_taken>>
  /\ LockStepOnly

\* lines 1282, 1313, 1321: the next LOCK TABLES statement of lock_all_tables
LockTablesStatement ==
  /\ cpc = "lock_all_tables"
  /\ citer < Len(LockStatements)
  /\ \/ /\ table_locks' = LockTables(table_locks, LockStatements[citer + 1])
        /\ UNCHANGED run_exception
        /\ IF citer + 1 = Len(LockStatements)
           THEN /\ cpc' = "check_interrupt"
                /\ citer' = 0
                /\ read_lock_taken' = "tables"
           ELSE /\ cpc' = cpc
                /\ citer' = citer + 1
                /\ UNCHANGED read_lock_taken
     \/ \* lines 1283-1290: access to the system tables is denied, go on
        /\ citer = 0
        /\ citer' = citer + 1
        /\ UNCHANGED <<table_locks, cpc, run_exception, read_lock_taken>>
     \/ \* lines 1291-1294, 1324-1327, 1369-1373: the statement fails
        /\ CoordinatorThrows(CoordinatorException)
        /\ UNCHANGED <<table_locks, citer, read_lock_taken>>
  /\ UNCHANGED <<m_ftwrl_failed, small_packet, global_lock, db_version,
                 snapshot, under_lock>>
  /\ UNCHANGED <<m_options, threads, m_workers, m_count, wpc, wtask,
                 wranges, m_worker_exceptions, m_worker_tasks,
                 m_chunking_tasks,
                 m_main_thread_finished_producing_chunking_tasks,
                 m_worker_writers, files, dtask, done_json, interrupts, kill_queries,
                 faults, pushed, executed, chunk_cancelled,
                 m_worker_interrupt>>

\* lines 350-354: the session of worker w starts its transaction, then the
\* worker notifies the coordinator; it notifies also when open_session threw
StartWorkerTransaction(w) ==
  /\ OpenSession(w)
  /\ IF wpc'[w] = "pop" THEN start_transaction(w, HoldsReadLock)
     ELSE UNCHANGED <<snapshot, under_lock>>
  /\ UNCHANGED <<m_ftwrl_failed, small_packet, global_lock, table_locks,
                 db_version, read_lock_taken>>

\* lines 1383-1394: after the fallback the transaction of the coordinator
\* starts only here, and starting it releases the table locks
release_read_locks ==
  IF m_ftwrl_failed
  THEN /\ start_transaction(Coordinator, HoldsReadLock)
       /\ table_locks' = {}
       /\ UNCHANGED global_lock
  ELSE /\ global_lock' = FALSE
       /\ UNCHANGED <<table_locks, snapshot, under_lock>>

\* lines 1097, 1112-1123: lock_instance, then leaving the scope releases
\* the read locks
ReleaseReadLocks ==
  /\ cpc = "lock_instance"
  /\ cpc' = "validate"
  /\ release_read_locks
  /\ UNCHANGED <<m_ftwrl_failed, small_packet, db_version, run_exception,
                 read_lock_taken>>
  /\ LockStepOnly

\* line 1097: an exception that leaves the scope releases the read locks too
ReleaseReadLocksOnThrow ==
  /\ cpc = "kill_workers"
  /\ global_lock \/ table_locks # {}
  /\ release_read_locks
  /\ UNCHANGED <<cpc, m_ftwrl_failed, small_packet, db_version,
                 run_exception, read_lock_taken>>
  /\ LockStepOnly

\* another session commits a write to table t: the server lets it when no
\* global read lock is held and the table is not locked for READ
ExternalWrite(t) ==
  /\ ~global_lock
  /\ t \notin table_locks
  /\ db_version < MaxWrites
  /\ db_version' = db_version + 1
  /\ UNCHANGED <<m_ftwrl_failed, small_packet, global_lock, table_locks,
                 snapshot, under_lock, read_lock_taken>>
  /\ UNCHANGED <<runVars, m_worker_interrupt>>

\* nothing is locked and no transaction has started
NoLocking ==
  /\ m_ftwrl_failed = FALSE
  /\ global_lock = FALSE
  /\ table_locks = {}
  /\ db_version = 0
  /\ snapshot = [s \in Sessions |-> NoSnapshot]
  /\ under_lock = [s \in Sessions |-> FALSE]
  /\ read_lock_taken = "none"

(***************************************************************************)
(* The bytes of the data files (SpecData): dump_table_data run by two      *)
(* workers on two DumpRange tasks of a dump to a directory, update_progress *)
(* and finish_writing, then write_dump_finished_metadata.                  *)
(***************************************************************************)
\* most rows of one DumpRange task
MaxDataRows == 3
\* update_every (line 410), 2000 rows in the source, scaled to the tables
update_every == 2
\* write_idx_every (line 412), 1 MiB in the source, scaled to the rows
write_idx_every == 2

VARIABLES
  data_kind,                \* the two tasks: chunks of one table, or tables
  dpc,                      \* position of each worker in dump_table_data
  rows_left,                \* rows the query of the task has yet to return
  bytes_written_per_file,
  bytes_written_per_update,
  rows_written_per_update,
  bytes_written_per_idx,
  index_file,               \* the 8-byte entries written to the .idx file
  reported,                 \* what the writer of the task has returned so far
  output_name,              \* name of the output file of the task's writer
  m_rows_written,
  m_bytes_written,
  m_data_bytes,
  m_table_data_bytes,
  m_chunk_file_bytes,
  m_schema_infos,           \* names of the schemas, in the order of the vector
  started_doc,              \* the document written to @.json
  done_doc,                 \* the document written to @.done.json
  output_directory          \* the run has created the output directory

dataVars == <<data_kind, dpc, rows_left, bytes_written_per_file,
              bytes_written_per_update, rows_written_per_update,
              bytes_written_per_idx, index_file, reported, output_name,
              m_rows_written, m_bytes_written, m_data_bytes,
              m_table_data_bytes, m_chunk_file_bytes, m_schema_infos,
              started_doc, done_doc, output_directory>>

\* the DumpRange tasks; task i is executed by worker i
DataTasks == {1, 2}
DataTables == {1, 2}

\* ---- Dump_write_result ----
NoBytes == [data_bytes |-> 0, bytes_written |-> 0]
\* the counters of a Dump_writer: data bytes, bytes written, rows
NoneReported == [data_bytes |-> 0, bytes_written |-> 0, rows |-> 0]
Reported(r, b, n) ==
  [data_bytes |-> r.data_bytes + b.data_bytes,
   bytes_written |-> r.bytes_written + b.bytes_written, rows |-> r.rows + n]
\* operator+=
AddResult(a, b) ==
  [data_bytes |-> a.data_bytes + b.data_bytes,
   bytes_written |-> a.bytes_written + b.bytes_written]

\* what write_preamble, write_row and write_postamble may return: the bytes
\* of the data and the bytes that reached the file after compression
PreambleResults == {[data_bytes |-> 1, bytes_written |-> 0]}
RowResults == {[data_bytes |-> 1, bytes_written |-> 1],
               [data_bytes |-> 2, bytes_written |-> 0],
               [data_bytes |-> 5, bytes_written |-> 1]}
PostambleResults == {NoBytes, [data_bytes |-> 1, bytes_written |-> 2]}

\* ---- the tasks and the names of their files ----
DataTable(i) == IF data_kind = "chunks" THEN 1 ELSE i
SchemaName(t) == IF t = 1 THEN <<"b">> ELSE <<"a">>
TableName(t) == IF t = 1 THEN <<"t">> ELSE <<"u">>
\* Table_info::basename: encode_table_basename(schema, table)
basename(t) == SchemaName(t) \o <<"@">> \o TableName(t)
\* the keys of m_cache.schemas
CacheSchemas == {SchemaName(DataTable(i)) : i \in DataTasks}
get_table_data_ext == <<".", "t", "s", "v">>
k_dump_in_progress_ext == <<".", "d", "u", "m", "p", "i", "n", "g">>

\* dump::get_table_data_filename(basename, ext)
WholeTableFilename(name) == name \o get_table_data_ext
\* dump::get_table_data_filename(basename, ext, idx, last_chunk)
ChunkFilename(name, idx, last_chunk) ==
  name \o <<"@">> \o (IF last_chunk THEN <<"@">> ELSE <<>>) \o to_string(idx)
       \o get_table_data_ext

\* the filename create_table_data_task gives to get_table_data_writer
get_table_data_filename(i) ==
  IF data_kind = "chunks"
  THEN ChunkFilename(basename(DataTable(i)), i - 1, i = 2)
  ELSE WholeTableFilename(basename(DataTable(i)))

EndsWith(s, ext) ==
  Len(s) >= Len(ext) /\ SubSeq(s, Len(s) - Len(ext) + 1, Len(s)) = ext

\* variant: the name is left as it is
MutTrimNothing(s) == s

\* lines 231-236
trim_in_progress_extension(s) ==
  IF EndsWith(s, k_dump_in_progress_ext)
  THEN SubSeq(s, 1, Len(s) - Len(k_dump_in_progress_ext)) ELSE s

\* m_chunk_file_bytes[name] = bytes
SetFileBytes(map, name, bytes) ==
  {e \in map : e.name # name} \cup {[name |-> name, bytes |-> bytes]}

NoDoc == [written |-> FALSE, dataBytes |-> 0,
          tableDataBytes |-> [t \in DataTables |-> 0], chunkFileBytes |-> {}]

NoStartedDoc ==
  [written |-> FALSE, schemas |-> <<>>, gtidExecutedInconsistent |-> FALSE]

RECURSIVE InKeyOrder(_)
\* the keys of a std::map in the order its iteration visits them
InKeyOrder(keys) ==
  IF keys = {} THEN <<>>
  ELSE LET first == CHOOSE k \in keys :
                      \A other \in keys : k = other \/ StrLess(k, other)
       IN <<first>> \o InKeyOrder(keys \ {first})

\* Dumper::create_schema_tasks (1507-1534): one Schema_info for each schema
\* of the cache
CreateSchemaTasks ==
  /\ m_schema_infos = <<>>
  /\ ~started_doc.written
  /\ m_schema_infos' = m_schema_infos \o InKeyOrder(CacheSchemas)
  /\ UNCHANGED <<data_kind, dpc, rows_left, bytes_written_per_file,
                 bytes_written_per_update, rows_written_per_update,
                 bytes_written_per_idx, index_file, reported, output_name,
                 m_rows_written, m_bytes_written, m_data_bytes,
                 m_table_data_bytes, m_chunk_file_bytes, started_doc,
                 done_doc, m_worker_interrupt,
                 output_directory>>

\* a value is_gtid_executed_inconsistent never returns when the dump is
\* consistent and FLUSH TABLES WITH READ LOCK has failed
MutGtidExecutedConsistent == FALSE

\* Dumper::is_gtid_executed_inconsistent (2806-2808)
is_gtid_executed_inconsistent == ~m_options.consistent_dump \/ m_ftwrl_failed

\* Dumper::write_dump_started_metadata (2061-2137): the list of schemas
\* (2079-2088) and gtidExecutedInconsistent (2125-2126) of @.json
write_dump_started_metadata ==
  [written |-> TRUE, schemas |-> m_schema_infos,
   gtidExecutedInconsistent |-> is_gtid_executed_inconsistent]

\* the export of one table to one file (Dump_options::is_export_only)
is_export_only == m_options.use_single_file

\* Dumper::create_output_directory (1650-1656); the directory of the one
\* output file exists already (line 1009)
create_output_directory == output_directory \/ ~m_options.use_single_file

\* Dumper::write_metadata (2049-2059)
write_metadata ==
  IF is_export_only THEN started_doc ELSE write_dump_started_metadata

\* Dumper::initialize_dump (1641-1648) of a dump to a directory
WriteDumpStartedMetadata ==
  /\ m_schema_infos # <<>>
  /\ ~started_doc.written
  /\ output_directory' = create_output_directory
  /\ started_doc' = write_metadata
  /\ UNCHANGED <<data_kind, dpc, rows_left, bytes_written_per_file,
                 bytes_written_per_update, rows_written_per_update,
                 bytes_written_per_idx, index_file, reported, output_name,
                 m_rows_written, m_bytes_written, m_data_bytes,
                 m_table_data_bytes, m_chunk_file_bytes, m_schema_infos,
                 done_doc, m_worker_interrupt>>

\* Dumper::update_progress (2512-2522)
update_progress(new_rows, new_bytes, t) ==
  /\ m_rows_written' = m_rows_written + new_rows
  /\ m_bytes_written' = m_bytes_written + new_bytes.bytes_written
  /\ m_data_bytes' = m_data_bytes + new_bytes.data_bytes
  /\ m_table_data_bytes' =
       [m_table_data_bytes EXCEPT ![t] = @ + new_bytes.data_bytes]

NoProgress ==
  UNCHANGED <<m_rows_written, m_bytes_written, m_data_bytes,
              m_table_data_bytes>>

\* lines 434-441: writer->open(), the index file, the preamble
DataOpen(i) ==
  /\ dpc[i] = "open"
  /\ started_doc.written
  /\ output_name' = [output_name EXCEPT ![i] =
                       get_table_data_filename(i) \o k_dump_in_progress_ext]
  /\ \E bytes_written \in PreambleResults :
       /\ reported' = [reported EXCEPT ![i] = Reported(@, bytes_written, 0)]
       /\ bytes_written_per_file' =
            [bytes_written_per_file EXCEPT ![i] = AddResult(@, bytes_written)]
       /\ bytes_written_per_update' =
            [bytes_written_per_update EXCEPT
               ![i] = AddResult(@, bytes_written)]
  /\ dpc' = [dpc EXCEPT ![i] = "rows"]
  /\ NoProgress
  /\ UNCHANGED <<data_kind, rows_left, rows_written_per_update,
                 bytes_written_per_idx, index_file, m_chunk_file_bytes,
                 m_schema_infos, started_doc, done_doc, m_worker_interrupt,
                 output_directory>>

\* variant: the entries of the index file are offsets to the file
MutIndexOffsetFile(per_file) == per_file.bytes_written

\* lines 457-458: the idx file contains offsets to the data stream
index_offset(per_file) == per_file.data_bytes

\* lines 443-476: one turn of the row loop
DataRow(i) ==
  /\ dpc[i] = "rows"
  /\ rows_left[i] > 0
  /\ rows_left' = [rows_left EXCEPT ![i] = @ - 1]
  /\ IF m_worker_interrupt
     THEN /\ dpc' = [dpc EXCEPT ![i] = "returned"]
          /\ NoProgress
          /\ UNCHANGED <<reported, bytes_written_per_file,
                         bytes_written_per_update, rows_written_per_update,
                         bytes_written_per_idx, index_file>>
     ELSE \E bytes_written \in RowResults :
            LET per_file == AddResult(bytes_written_per_file[i], bytes_written)
                per_update ==
                  AddResult(bytes_written_per_update[i], bytes_written)
                per_idx == bytes_written_per_idx[i] + bytes_written.data_bytes
                rows == rows_written_per_update[i] + 1
            IN
              /\ reported' =
                   [reported EXCEPT ![i] = Reported(@, bytes_written, 1)]
              /\ bytes_written_per_file' =
                   [bytes_written_per_file EXCEPT ![i] = per_file]
              /\ IF per_idx >= write_idx_every
                 THEN /\ index_file' = [index_file EXCEPT
                                          ![i] = Append(@, index_offset(per_file))]
                      /\ bytes_written_per_idx' =
                           [bytes_written_per_idx EXCEPT
                              ![i] = per_idx % write_idx_every]
                 ELSE /\ bytes_written_per_idx' =
                           [bytes_written_per_idx EXCEPT ![i] = per_idx]
                      /\ UNCHANGED index_file
              /\ IF update_every = rows
                 THEN /\ update_progress(rows, per_update, DataTable(i))
                      /\ rows_written_per_update' =
                           [rows_written_per_update EXCEPT ![i] = 0]
                      /\ bytes_written_per_update' =
                           [bytes_written_per_update EXCEPT ![i] = NoBytes]
                 ELSE /\ NoProgress
                      /\ rows_written_per_update' =
                           [rows_written_per_update EXCEPT ![i] = rows]
                      /\ bytes_written_per_update' =
                           [bytes_written_per_update EXCEPT ![i] = per_update]
              /\ UNCHANGED dpc
  /\ UNCHANGED <<data_kind, output_name, m_chunk_file_bytes, m_schema_infos,
                 started_doc, done_doc, m_worker_interrupt,
                 output_directory>>

\* lines 479-490: the postamble, then the total closes the index file
DataPostamble(i) ==
  /\ dpc[i] = "rows"
  /\ rows_left[i] = 0
  /\ \E bytes_written \in PostambleResults :
       LET per_file == AddResult(bytes_written_per_file[i], bytes_written) IN
         /\ reported' =
              [reported EXCEPT ![i] = Reported(@, bytes_written, 0)]
         /\ bytes_written_per_file' =
              [bytes_written_per_file EXCEPT ![i] = per_file]
         /\ bytes_written_per_update' =
              [bytes_written_per_update EXCEPT
                 ![i] = AddResult(@, bytes_written)]
         /\ index_file' =
              [index_file EXCEPT ![i] = Append(@, per_file.data_bytes)]
  /\ dpc' = [dpc EXCEPT ![i] = "finish"]
  /\ NoProgress
  /\ UNCHANGED <<data_kind, rows_left, rows_written_per_update,
                 bytes_written_per_idx, output_name, m_chunk_file_bytes,
                 m_schema_infos, started_doc, done_doc, m_worker_interrupt,
                 output_directory>>

\* variant: the manifest entry of a file is its size after compression
MutChunkFileBytesWritten(per_file) == per_file.bytes_written

\* line 497: the total_bytes dump_table_data hands to finish_writing
total_bytes(per_file) == per_file.data_bytes

\* variant: the last update of the progress is left out
MutNoFinalUpdate(rows, per_update) == [rows |-> 0, bytes |-> NoBytes]

\* line 498: what the last update_progress of the task is given
final_update(rows, per_update) == [rows |-> rows, bytes |-> per_update]

\* lines 497-498: finish_writing (2011-2031: close_file renames the file,
\* m_chunk_file_bytes gets its entry), then the last update_progress
DataFinish(i) ==
  /\ dpc[i] = "finish"
  /\ LET final_filename == trim_in_progress_extension(output_name[i])
         last == final_update(rows_written_per_update[i],
                              bytes_written_per_update[i])
     IN
       /\ output_name' = [output_name EXCEPT ![i] = final_filename]
       /\ m_chunk_file_bytes' =
            SetFileBytes(m_chunk_file_bytes, final_filename,
                         total_bytes(bytes_written_per_file[i]))
       /\ update_progress(last.rows, last.bytes, DataTable(i))
  /\ dpc' = [dpc EXCEPT ![i] = "done"]
  /\ UNCHANGED <<data_kind, rows_left, bytes_written_per_file,
                 bytes_written_per_update, rows_written_per_update,
                 bytes_written_per_idx, index_file, reported, m_schema_infos,
                 started_doc, done_doc, m_worker_interrupt,
                 output_directory>>

\* the operator interrupts (emergency_shutdown, line 2440)
DataInterrupt ==
  /\ ~m_worker_interrupt
  /\ started_doc.written
  /\ done_doc = NoDoc
  /\ \E i \in DataTasks : dpc[i] \notin {"done", "returned"}
  /\ m_worker_interrupt' = TRUE
  /\ UNCHANGED dataVars

\* lines 1152-1158: after the join, write_dump_finished_metadata (2139-2183)
WriteDumpFinishedMetadata ==
  /\ \A i \in DataTasks : dpc[i] \in {"done", "returned"}
  /\ ~m_worker_interrupt
  /\ done_doc = NoDoc
  /\ done_doc' = [written |-> TRUE, dataBytes |-> m_data_bytes,
                  tableDataBytes |-> m_table_data_bytes,
                  chunkFileBytes |-> m_chunk_file_bytes]
  /\ UNCHANGED <<data_kind, dpc, rows_left, bytes_written_per_file,
                 bytes_written_per_update, rows_written_per_update,
                 bytes_written_per_idx, index_file, reported, output_name,
                 m_rows_written, m_bytes_written, m_data_bytes,
                 m_table_data_bytes, m_chunk_file_bytes, m_schema_infos,
                 started_doc, m_worker_interrupt,
                 output_directory>>

\* initialize_progress (2482-2486) and the tasks not yet started
DataInit ==
  /\ data_kind \in {"chunks", "tables"}
  /\ dpc = [i \in DataTasks |-> "open"]
  /\ rows_left \in [DataTasks -> 0..MaxDataRows]
  /\ bytes_written_per_file = [i \in DataTasks |-> NoBytes]
  /\ bytes_written_per_update = [i \in DataTasks |-> NoBytes]
  /\ rows_written_per_update = [i \in DataTasks |-> 0]
  /\ bytes_written_per_idx = [i \in DataTasks |-> 0]
  /\ index_file = [i \in DataTasks |-> <<>>]
  /\ reported = [i \in DataTasks |-> NoneReported]
  /\ output_name = [i \in DataTasks |-> <<>>]
  /\ m_rows_written = 0
  /\ m_bytes_written = 0
  /\ m_data_bytes = 0
  /\ m_table_data_bytes = [t \in DataTables |-> 0]
  /\ m_chunk_file_bytes = {}
  /\ m_schema_infos = <<>>
  /\ started_doc = NoStartedDoc
  /\ done_doc = NoDoc
  /\ output_directory = FALSE

\* no data is being dumped
NoData ==
  /\ data_kind = "tables"
  /\ dpc = [i \in DataTasks |-> "done"]
  /\ rows_left = [i \in DataTasks |-> 0]
  /\ bytes_written_per_file = [i \in DataTasks |-> NoBytes]
  /\ bytes_written_per_update = [i \in DataTasks |-> NoBytes]
  /\ rows_written_per_update = [i \in DataTasks |-> 0]
  /\ bytes_written_per_idx = [i \in DataTasks |-> 0]
  /\ index_file = [i \in DataTasks |-> <<>>]
  /\ reported = [i \in DataTasks |-> NoneReported]
  /\ output_name = [i \in DataTasks |-> <<>>]
  /\ m_rows_written = 0
  /\ m_bytes_written = 0
  /\ m_data_bytes = 0
  /\ m_table_data_bytes = [t \in DataTables |-> 0]
  /\ m_chunk_file_bytes = {}
  /\ m_schema_infos = <<>>
  /\ started_doc = NoStartedDoc
  /\ done_doc = NoDoc
  /\ output_directory = FALSE

\* lines 1132-1134: initialize_dump (1641-1648), dump_ddl; a dry run
\* creates and writes nothing
InitializeDump ==
  /\ cpc = "initialize_dump"
  /\ \/ /\ cpc' = "create_schema_ddl_tasks"
        /\ IF m_options.is_dry_run
           THEN UNCHANGED <<output_directory, started_doc>>
           ELSE /\ output_directory' = create_output_directory
                /\ started_doc' = write_metadata
        /\ UNCHANGED <<run_exception, faults>>
     \/ \* creating the directory or writing a file fails
        /\ CanFail
        /\ ~m_options.is_dry_run
        /\ faults' = faults + 1
        /\ CoordinatorThrows(CoordinatorException)
        /\ output_directory' \in {output_directory, create_output_directory}
        /\ UNCHANGED started_doc
  /\ UNCHANGED <<m_worker_interrupt, citer, threads, m_workers, m_count,
                 m_worker_tasks, m_chunking_tasks,
                 m_main_thread_finished_producing_chunking_tasks,
                 m_worker_writers, done_json, chunk_cancelled>>
  /\ CoordinatorOnly
  /\ UNCHANGED <<data_kind, dpc, rows_left, bytes_written_per_file,
                 bytes_written_per_update, rows_written_per_update,
                 bytes_written_per_idx, index_file, reported, output_name,
                 m_rows_written, m_bytes_written, m_data_bytes,
                 m_table_data_bytes, m_chunk_file_bytes, m_schema_infos,
                 done_doc>>

\* ---- the state a Dumper is constructed in ----
DefaultOptions ==
  [use_single_file |-> FALSE, is_dry_run |-> FALSE, dump_ddl |-> TRUE,
   split |-> TRUE, consistent_dump |-> TRUE,
    threads |-> NumWorkers, tables |-> 1]

\* the combinations of options the runs are checked for: a dump to a
\* directory, an export to one file, a dry run, a dry run of the data only
Profiles ==
  {DefaultOptions,
   [use_single_file |-> TRUE, is_dry_run |-> FALSE, dump_ddl |-> FALSE,
    split |-> FALSE, consistent_dump |-> TRUE,
    threads |-> NumWorkers, tables |-> 1],
   [use_single_file |-> TRUE, is_dry_run |-> FALSE, dump_ddl |-> FALSE,
    split |-> TRUE, consistent_dump |-> TRUE,
    threads |-> NumWorkers, tables |-> 1],
   [use_single_file |-> FALSE, is_dry_run |-> TRUE, dump_ddl |-> TRUE,
    split |-> TRUE, consistent_dump |-> TRUE,
    threads |-> NumWorkers, tables |-> 1],
   [use_single_file |-> FALSE, is_dry_run |-> TRUE, dump_ddl |-> FALSE,
    split |-> TRUE, consistent_dump |-> TRUE,
    threads |-> NumWorkers, tables |-> 1]}

\* the Dumper as constructed; the operator has interrupted and operations
\* have failed the given numbers of times
Construct(options, interrupted, failed) ==
  /\ m_options = options
  /\ cpc = "do_run"
  /\ citer = 0
  /\ threads = 0
  /\ m_workers = 0
  /\ m_count = 0
  /\ wpc = [w \in Workers |-> "none"]
  /\ wtask = [w \in Workers |-> NoTask]
  /\ wranges = [w \in Workers |-> 0]
  /\ m_worker_exceptions = [w \in Workers |-> NoException]
  /\ m_worker_tasks = EmptyQueue
  /\ m_chunking_tasks = 0
  /\ m_main_thread_finished_producing_chunking_tasks = FALSE
  /\ m_worker_writers = <<>>
  /\ files = [f \in AllFiles |-> NoFile]
  /\ dtask = [f \in FileIds |-> "none"]
  /\ done_json = FALSE
  /\ run_exception = NoException
  /\ interrupts = interrupted
  /\ kill_queries = 0
  /\ faults = failed
  /\ pushed = 0
  /\ executed = 0
  /\ chunk_cancelled = FALSE

Constructed(options) == Construct(options, 0, 0)

\* no table is being chunked
NoChunking ==
  /\ keyType = "Integer"
  /\ tableKeys = <<>>
  /\ tableNulls = 0
  /\ is_chunked = FALSE
  /\ row_count = 0
  /\ bytes_per_chunk = 1
  /\ average_row_length = 0
  /\ kpc = "done"
  /\ ranges_count = 0
  /\ range_end = <<>>
  /\ current = 0
  /\ step = 0
  /\ ns = NsIdle
  /\ data_tasks = <<>>
  /\ ranges = 0
  /\ arith = {}

(***************************************************************************)
(* The compatibility pass (SpecMds): Dumper::validate_mds over the users,  *)
(* one schema with two tables, their triggers and one view.                *)
(***************************************************************************)
\* most issues one dump_* call of the schema dumper reports
MaxIssues == 2

VARIABLES
  mds_options,    \* mds_compatibility, dump_ddl, dump_users, dump_triggers
  has_triggers,   \* per table: count_triggers_for_table > 0
  mds_pc,         \* position in validate_mds
  mds_step,       \* dump_* calls made so far
  fixed,
  error,
  mds_reported,   \* history: the statuses of the issues reported so far
  mds_exception

mdsVars == <<mds_options, has_triggers, mds_pc, mds_step, fixed, error,
             mds_reported, mds_exception>>

MdsTables == {1, 2}

\* Schema_dumper::Issue::Status
IssueStatuses == {"FIXED", "FIX_MANUALLY", "USE_STRIP_DEFINERS"}

\* what one dump_* call may report
IssueLists == UNION {[1..n -> IssueStatuses] : n \in 0..MaxIssues}

CompatibilityIssues == [what |-> "Compatibility issues were found", worker |-> -1]

\* lines 1583-1605: the dump_* calls of validate_mds, in order
MdsCalls ==
  (IF mds_options.dump_users THEN <<"users">> ELSE <<>>)
  \o <<"schema">>
  \o <<"table">>
  \o (IF mds_options.dump_triggers /\ has_triggers[1]
      THEN <<"triggers">> ELSE <<>>)
  \o <<"table">>
  \o (IF mds_options.dump_triggers /\ has_triggers[2]
      THEN <<"triggers">> ELSE <<>>)
  \o <<"temporary_view", "view">>

\* an issue that is not FIXED counts as fixed as well
MutEveryIssueFixed(status) == TRUE

\* line 1558-1559
was_fixed(status) == status = "FIXED"

RECURSIVE issues(_, _)
\* lines 1556-1580: the lambda issues, over the issues of one call
issues(acc, list) ==
  IF list = <<>> THEN acc
  ELSE issues([fixed |-> acc.fixed \/ was_fixed(Head(list)),
               error |-> acc.error \/ ~was_fixed(Head(list))], Tail(list))

\* line 1537: nothing is checked without a target or without the DDL
ValidateMdsBegin ==
  /\ mds_pc = "start"
  /\ mds_pc' = IF mds_options.mds_compatibility /\ mds_options.dump_ddl
               THEN "dump" ELSE "proceed"
  /\ UNCHANGED <<mds_options, has_triggers, mds_step, fixed, error,
                 mds_reported, mds_exception>>

\* lines 1583-1605: the next dump_* call and the issues it reports
ValidateMdsDump ==
  /\ mds_pc = "dump"
  /\ mds_step < Len(MdsCalls)
  /\ \E list \in IssueLists :
       LET acc == issues([fixed |-> fixed, error |-> error], list)
       IN /\ fixed' = acc.fixed
          /\ error' = acc.error
          /\ mds_reported' =
               mds_reported \cup {list[k] : k \in 1..Len(list)}
  /\ mds_step' = mds_step + 1
  /\ UNCHANGED <<mds_options, has_triggers, mds_pc, mds_exception>>

\* lines 1607-1621
ValidateMdsEnd ==
  /\ mds_pc = "dump"
  /\ mds_step = Len(MdsCalls)
  /\ IF error
     THEN mds_pc' = "threw" /\ mds_exception' = CompatibilityIssues
     ELSE mds_pc' = "proceed" /\ UNCHANGED mds_exception
  /\ UNCHANGED <<mds_options, has_triggers, mds_step, fixed, error,
                 mds_reported>>

MdsInit ==
  /\ mds_options \in [mds_compatibility : BOOLEAN, dump_ddl : BOOLEAN,
                      dump_users : BOOLEAN, dump_triggers : BOOLEAN]
  /\ has_triggers \in [MdsTables -> BOOLEAN]
  /\ mds_pc = "start"
  /\ mds_step = 0
  /\ fixed = FALSE
  /\ error = FALSE
  /\ mds_reported = {}
  /\ mds_exception = NoException

\* validate_mds is not running
NoMds ==
  /\ mds_options = [mds_compatibility |-> FALSE, dump_ddl |-> TRUE,
                    dump_users |-> FALSE, dump_triggers |-> FALSE]
  /\ has_triggers = [t \in MdsTables |-> FALSE]
  /\ mds_pc = "start"
  /\ mds_step = 0
  /\ fixed = FALSE
  /\ error = FALSE
  /\ mds_reported = {}
  /\ mds_exception = NoException

(***************************************************************************)
(* The encoding of the columns (SpecQuery): prepare_query, the preamble of *)
(* the writer and the decodeColumns of the table's metadata.               *)
(***************************************************************************)
\* most columns of a table
MaxColumns == 3

VARIABLES
  columns,               \* table.cache->columns: csv_unsafe of each column
  use_base64,
  qpc,                   \* position of the worker in dump_table_data
  query_columns,         \* the select list of the query
  pre_encoded_columns,
  preamble_encodings,    \* the encodings write_preamble was given
  table_metadata         \* decodeColumns of the metadata file of the table

queryVars == <<columns, use_base64, qpc, query_columns, pre_encoded_columns,
               preamble_encodings, table_metadata>>

NoMetadata == [written |-> FALSE, decodeColumns |-> <<>>]

\* lines 364-377: the expression that selects column c
select_column(c, base64) ==
  IF columns[c].csv_unsafe
  THEN [fn |-> IF base64 THEN "TO_BASE64" ELSE "HEX", column |-> c]
  ELSE [fn |-> "", column |-> c]

\* lines 368-370, 375: the Encoding_type pushed for column c
encoding_type(c, base64) ==
  IF columns[c].csv_unsafe
  THEN IF base64 THEN "BASE64" ELSE "HEX"
  ELSE "NONE"

\* the decoding function is UNHEX whatever the encoding is
MutDecodeAlwaysUnhex(base64) == "UNHEX"

\* line 2313
decode_function(base64) == IF base64 THEN "FROM_BASE64" ELSE "UNHEX"

\* lines 357-403: the select list and the encodings of prepare_query
PrepareQuery ==
  /\ qpc = "prepare_query"
  /\ query_columns' = [c \in 1..Len(columns) |-> select_column(c, use_base64)]
  /\ pre_encoded_columns' =
       [c \in 1..Len(columns) |-> encoding_type(c, use_base64)]
  /\ qpc' = "write_preamble"
  /\ UNCHANGED <<columns, use_base64, preamble_encodings, table_metadata>>

\* lines 438-439
WritePreamble ==
  /\ qpc = "write_preamble"
  /\ preamble_encodings' = pre_encoded_columns
  /\ qpc' = "rows"
  /\ UNCHANGED <<columns, use_base64, query_columns, pre_encoded_columns,
                 table_metadata>>

\* Dumper::write_table_metadata (2304-2321): decodeColumns has a member for
\* each csv_unsafe column, and is left out when it has none
WriteTableMetadata ==
  /\ ~table_metadata.written
  /\ table_metadata' =
       [written |-> TRUE,
        decodeColumns |->
          [c \in {d \in 1..Len(columns) : columns[d].csv_unsafe} |->
             decode_function(use_base64)]]
  /\ UNCHANGED <<columns, use_base64, qpc, query_columns,
                 pre_encoded_columns, preamble_encodings>>

QueryInit ==
  /\ columns \in UNION {[1..n -> [csv_unsafe : BOOLEAN]] : n \in 1..MaxColumns}
  /\ use_base64 \in BOOLEAN
  /\ qpc = "prepare_query"
  /\ query_columns = <<>>
  /\ pre_encoded_columns = <<>>
  /\ preamble_encodings = <<>>
  /\ table_metadata = NoMetadata

\* no query is being prepared
NoQuery ==
  /\ columns = <<[csv_unsafe |-> FALSE]>>
  /\ use_base64 = FALSE
  /\ qpc = "prepare_query"
  /\ query_columns = <<>>
  /\ pre_encoded_columns = <<>>
  /\ preamble_encodings = <<>>
  /\ table_metadata = NoMetadata

(***************************************************************************)
(* The basenames (SpecNames): Dumper::get_basename called by               *)
(* create_schema_tasks for the schemas, tables and views of the cache.     *)
(***************************************************************************)
\* max_length (line 2619), 225 characters in the source, scaled to the names
max_length == 2
\* most calls of get_basename
MaxBasenames == 3

VARIABLES
  m_truncated_basenames,   \* ordinals handed out, by truncated name
  get_basename_calls       \* history: the argument and the result of each call

nameVars == <<m_truncated_basenames, get_basename_calls>>

NameChars == {"a", "0", "1"}

\* the encoded names get_basename may be called with
EncodedNames == UNION {[1..n -> NameChars] : n \in 1..(max_length + 1)}

\* shcore::truncate
truncate(s, length) == IF Len(s) > length THEN SubSeq(s, 1, length) ELSE s

\* the truncated names that have been handed an ordinal
TruncatedNames == UNION {[1..n -> NameChars] : n \in {max_length}}

\* every truncated name is handed the ordinal 0
MutOrdinalAlwaysZero(truncated) == 0

\* line 2625: the value of m_truncated_basenames[truncated] before the ++
ordinal(truncated) == m_truncated_basenames[truncated]

\* Dumper::get_basename (2611-2630): the value it returns
get_basename(name) ==
  IF Len(name) # Len(truncate(name, max_length))
  THEN truncate(name, max_length)
         \o to_string(ordinal(truncate(name, max_length)))
  ELSE name

\* one call of get_basename by create_schema_tasks (1511, 1516-1517,
\* 1525-1526), with an encoded name not passed before
GetBasename(name) ==
  /\ Len(get_basename_calls) < MaxBasenames
  /\ \A k \in 1..Len(get_basename_calls) : get_basename_calls[k].name # name
  /\ get_basename_calls' =
       Append(get_basename_calls,
              [name |-> name, basename |-> get_basename(name)])
  /\ m_truncated_basenames' =
       IF Len(name) # Len(truncate(name, max_length))
       THEN [m_truncated_basenames EXCEPT ![truncate(name, max_length)] = @ + 1]
       ELSE m_truncated_basenames

\* no basename has been asked for
NoNames ==
  /\ m_truncated_basenames = [p \in TruncatedNames |-> 0]
  /\ get_basename_calls = <<>>

fnVars == <<mdsVars, queryVars, nameVars>>

\* none of the functions checked on their own is running
NoFn == NoMds /\ NoQuery /\ NoNames

vars ==
  <<chunkVars, m_worker_interrupt, runVars, lockVars, dataVars, fnVars>>

(***************************************************************************)
(* SpecChunk: the chunker of one table, over bounded tables.               *)
(***************************************************************************)
\* smallest and largest keys of the integer-keyed tables
IntInputs(t) ==
  {x \in {TMin(t), TMin(t) + 1, -1, 0, 1, 2, TMax(t) - 1, TMax(t)} :
     Fits(t, x)}

\* keys of the string-keyed tables
StrKeys == {<<>>, <<"a">>, <<"a", "b">>, <<"b">>}

IsSorted(seq) ==
  \A i \in 1..(Len(seq) - 1) : StrLeq(seq[i], seq[i + 1])

StrTables ==
  {seq \in UNION {[1..n -> StrKeys] : n \in 0..MaxRows} : IsSorted(seq)}

IntTables(t) ==
  {<<>>} \cup {p \in IntInputs(t) \X IntInputs(t) :
                 /\ p[1] <= p[2]
                 /\ \/ p[2] - p[1] <= MaxSpan
                    \/ p[1] = TMin(t) /\ p[2] = TMax(t)}

\* (bytes_per_chunk, average_row_length): rows_per_chunk is 0, 1 and 12
ChunkSizes == {<<1, 0>>, <<2, 2>>, <<24, 2>>}
RowCounts == {0, 1, 25}

ChunkInit ==
  /\ keyType \in {"Integer", "UInteger", "String"}
  /\ tableKeys \in (IF keyType = "String" THEN StrTables
                    ELSE IntTables(keyType))
  /\ tableNulls \in 0..MaxNulls
  /\ is_chunked \in BOOLEAN
  /\ row_count \in RowCounts
  /\ \E size \in ChunkSizes :
       bytes_per_chunk = size[1] /\ average_row_length = size[2]
  /\ kpc = "start"
  /\ ranges_count = 0
  /\ range_end = <<>>
  /\ current = 0
  /\ step = 0
  /\ ns = NsIdle
  /\ data_tasks = <<>>
  /\ ranges = 0
  /\ arith = {}

\* the operator interrupts, or another worker fails, while the table is
\* being chunked (emergency_shutdown, line 2440)
ChunkInterrupt ==
  /\ kpc \notin {"done", "trapped"}
  /\ ~m_worker_interrupt
  /\ m_worker_interrupt' = TRUE
  /\ UNCHANGED chunkVars

InitChunk ==
  /\ NoFn
  /\ ChunkInit
  /\ m_worker_interrupt = FALSE
  /\ Constructed(DefaultOptions)
  /\ NoLocking
  /\ NoData
  /\ small_packet = FALSE

NextChunk ==
  \/ Chunker(CreateRangedTasksBegin) /\ UNCHANGED <<fnVars, runVars, lockVars, dataVars>>
  \/ Chunker(GenerateRangesLoop) /\ UNCHANGED <<fnVars, runVars, lockVars, dataVars>>
  \/ Chunker(NextStepWhile) /\ UNCHANGED <<fnVars, runVars, lockVars, dataVars>>
  \/ Chunker(NextStepFor) /\ UNCHANGED <<fnVars, runVars, lockVars, dataVars>>
  \/ Chunker(NextStepPost) /\ UNCHANGED <<fnVars, runVars, lockVars, dataVars>>
  \/ Chunker(GenerateRangesApply) /\ UNCHANGED <<fnVars, runVars, lockVars, dataVars>>
  \/ Chunker(LimitWalk) /\ UNCHANGED <<fnVars, runVars, lockVars, dataVars>>
  \/ Chunker(CreateTableDataTasksEnd) /\ UNCHANGED <<fnVars, runVars, lockVars, dataVars>>
  \/ ChunkInterrupt /\ UNCHANGED <<fnVars, runVars, lockVars, dataVars>>

SpecChunk == InitChunk /\ [][NextChunk]_vars

(***************************************************************************)
(* Spec: one call of Dumper::run, from a Dumper as constructed.            *)
(***************************************************************************)
Init ==
  /\ NoFn
  /\ \E options \in Profiles : Constructed(options)
  /\ m_worker_interrupt \in BOOLEAN
  /\ NoChunking
  /\ NoLocking
  /\ NoData
  /\ small_packet = FALSE

Next ==
  \/ DoRunBegin /\ UNCHANGED <<fnVars, chunkVars, lockVars, dataVars>>
  \/ AcquireReadLocks /\ UNCHANGED <<fnVars, chunkVars, lockVars, dataVars>>
  \/ CheckInterrupt /\ UNCHANGED <<fnVars, chunkVars, lockVars, dataVars>>
  \/ SpawnThread /\ UNCHANGED <<fnVars, chunkVars, lockVars, dataVars>>
  \/ EmplaceWorker /\ UNCHANGED <<fnVars, chunkVars, lockVars, dataVars>>
  \/ InitializeInstanceCache /\ UNCHANGED <<fnVars, chunkVars, lockVars, dataVars>>
  \/ WaitForWorkers /\ UNCHANGED <<fnVars, chunkVars, lockVars, dataVars>>
  \/ LockInstance /\ UNCHANGED <<fnVars, chunkVars, lockVars, dataVars>>
  \/ Validate /\ UNCHANGED <<fnVars, chunkVars, lockVars, dataVars>>
  \/ InitializeDump /\ UNCHANGED <<fnVars, chunkVars, lockVars>>
  \/ CreateSchemaDdlTasks /\ UNCHANGED <<fnVars, chunkVars, lockVars, dataVars>>
  \/ CreateTableTasks /\ UNCHANGED <<fnVars, chunkVars, lockVars, dataVars>>
  \/ MaybePushShutdownTasks /\ UNCHANGED <<fnVars, chunkVars, lockVars, dataVars>>
  \/ WaitForAllTasks /\ UNCHANGED <<fnVars, chunkVars, lockVars, dataVars>>
  \/ Finish /\ UNCHANGED <<fnVars, chunkVars, lockVars, dataVars>>
  \/ Rethrow /\ UNCHANGED <<fnVars, chunkVars, lockVars, dataVars>>
  \/ RunCheck /\ UNCHANGED <<fnVars, chunkVars, lockVars, dataVars>>
  \/ KillWorkers /\ UNCHANGED <<fnVars, chunkVars, lockVars, dataVars>>
  \/ KillJoin /\ UNCHANGED <<fnVars, chunkVars, lockVars, dataVars>>
  \/ OperatorInterrupt /\ UNCHANGED <<fnVars, chunkVars, lockVars, dataVars>>
  \/ \E w \in Workers : OpenSession(w) /\ UNCHANGED <<fnVars, chunkVars, lockVars, dataVars>>
  \/ \E w \in Workers : HandleException(w) /\ UNCHANGED <<fnVars, chunkVars, lockVars, dataVars>>
  \/ \E w \in Workers : Pop(w) /\ UNCHANGED <<fnVars, chunkVars, lockVars, dataVars>>
  \/ \E w \in Workers : WriteDdl(w) /\ UNCHANGED <<fnVars, chunkVars, lockVars, dataVars>>
  \/ \E w \in Workers : ChunkEmit(w) /\ UNCHANGED <<fnVars, chunkVars, lockVars, dataVars>>
  \/ \E w \in Workers : ChunkReturnsZero(w) /\ UNCHANGED <<fnVars, chunkVars, lockVars, dataVars>>
  \/ \E w \in Workers : ChunkFails(w) /\ UNCHANGED <<fnVars, chunkVars, lockVars, dataVars>>
  \/ \E w \in Workers : ChunkEnd(w) /\ UNCHANGED <<fnVars, chunkVars, lockVars, dataVars>>
  \/ \E w \in Workers : DumpBegin(w) /\ UNCHANGED <<fnVars, chunkVars, lockVars, dataVars>>
  \/ \E w \in Workers : DumpRows(w) /\ UNCHANGED <<fnVars, chunkVars, lockVars, dataVars>>
  \/ \E w \in Workers : DumpFinish(w) /\ UNCHANGED <<fnVars, chunkVars, lockVars, dataVars>>

Spec == Init /\ [][Next]_vars

(***************************************************************************)
(* SpecLock: the locking phase of a consistent dump.                       *)
(***************************************************************************)
InitLock ==
  /\ NoFn
  /\ Constructed(DefaultOptions)
  /\ m_worker_interrupt = FALSE
  /\ NoChunking
  /\ NoLocking
  /\ NoData
  /\ small_packet \in BOOLEAN

NextLock ==
  \/ DoRunBegin /\ UNCHANGED <<fnVars, chunkVars, lockVars, dataVars>>
  \/ FlushTablesWithReadLock /\ UNCHANGED <<fnVars, chunkVars, dataVars>>
  \/ FlushTablesFails /\ UNCHANGED <<fnVars, chunkVars, dataVars>>
  \/ LockTablesStatement /\ UNCHANGED <<fnVars, chunkVars, dataVars>>
  \/ CheckInterrupt /\ UNCHANGED <<fnVars, chunkVars, lockVars, dataVars>>
  \/ SpawnThread /\ UNCHANGED <<fnVars, chunkVars, lockVars, dataVars>>
  \/ EmplaceWorker /\ UNCHANGED <<fnVars, chunkVars, lockVars, dataVars>>
  \/ InitializeInstanceCache /\ UNCHANGED <<fnVars, chunkVars, lockVars, dataVars>>
  \/ WaitForWorkers /\ UNCHANGED <<fnVars, chunkVars, lockVars, dataVars>>
  \/ ReleaseReadLocks /\ UNCHANGED <<fnVars, chunkVars, dataVars>>
  \/ Validate /\ UNCHANGED <<fnVars, chunkVars, lockVars, dataVars>>
  \/ InitializeDump /\ UNCHANGED <<fnVars, chunkVars, lockVars>>
  \/ ReleaseReadLocksOnThrow /\ UNCHANGED <<fnVars, chunkVars, dataVars>>
  \/ \E w \in Workers : StartWorkerTransaction(w) /\ UNCHANGED <<fnVars, chunkVars, dataVars>>
  \/ \E t \in InScopeTables : ExternalWrite(t) /\ UNCHANGED <<fnVars, chunkVars, dataVars>>

SpecLock == InitLock /\ [][NextLock]_vars

(***************************************************************************)
(* SpecData: the data phase of a dump to a directory.                      *)
(***************************************************************************)
InitData ==
  /\ NoFn
  /\ DataInit
  /\ m_worker_interrupt = FALSE
  /\ Constructed(DefaultOptions)
  /\ NoChunking
  /\ NoLocking
  /\ small_packet = FALSE

NextData ==
  \/ CreateSchemaTasks /\ UNCHANGED <<fnVars, chunkVars, runVars, lockVars>>
  \/ WriteDumpStartedMetadata /\ UNCHANGED <<fnVars, chunkVars, runVars, lockVars>>
  \/ \E i \in DataTasks : DataOpen(i) /\ UNCHANGED <<fnVars, chunkVars, runVars, lockVars>>
  \/ \E i \in DataTasks : DataRow(i) /\ UNCHANGED <<fnVars, chunkVars, runVars, lockVars>>
  \/ \E i \in DataTasks :
       DataPostamble(i) /\ UNCHANGED <<fnVars, chunkVars, runVars, lockVars>>
  \/ \E i \in DataTasks : DataFinish(i) /\ UNCHANGED <<fnVars, chunkVars, runVars, lockVars>>
  \/ DataInterrupt /\ UNCHANGED <<fnVars, chunkVars, runVars, lockVars>>
  \/ WriteDumpFinishedMetadata /\ UNCHANGED <<fnVars, chunkVars, runVars, lockVars>>

SpecData == InitData /\ [][NextData]_vars

(***************************************************************************)
(* Claims about the chunker, checked under SpecChunk.                      *)
(***************************************************************************)
ChunkingCompleted == kpc = "done" /\ ~m_worker_interrupt

RangedTasks == {i \in 1..Len(data_tasks) : data_tasks[i].ranged}

\* the key interval a task carries, as the server reads its two literals
RangeLo(i) == LiteralValue(quote_value(data_tasks[i].begin, data_tasks[i].type))
RangeHi(i) == LiteralValue(quote_value(data_tasks[i].end, data_tasks[i].type))

RangesDisjoint(i, j) ==
  \/ KeyLess(RangeHi(i), RangeLo(j))
  \/ KeyLess(RangeHi(j), RangeLo(i))
  \/ KeyLess(RangeHi(i), RangeLo(i))
  \/ KeyLess(RangeHi(j), RangeLo(j))

\* C1: when chunking of a table completes without interrupt or failure, the
\* queries of its DumpRange tasks together select every row exactly once: a
\* row of any key the table may hold, and a row with a NULL key, is selected
\* by one task and by no second task.
C1_EveryRowSelectedOnce ==
  ChunkingCompleted =>
    /\ \A k \in PossibleKeys : Cardinality(TasksSelectingKey(k)) = 1
    /\ tableNulls > 0 => Cardinality(TasksSelectingNull) = 1

\* C2: the key intervals [begin, end] of the ranged DumpRange tasks of a table
\* are pairwise disjoint, and of these tasks exactly the one with ordinal 0
\* has include_nulls set.
C2_RangesDisjointNullsInFirst ==
  /\ \A i \in RangedTasks : \A j \in RangedTasks :
       i # j => RangesDisjoint(i, j)
  /\ \A i \in RangedTasks :
       data_tasks[i].include_nulls <=> (data_tasks[i].idx = 0)
  /\ RangedTasks # {} =>
       Cardinality({i \in RangedTasks : data_tasks[i].include_nulls}) = 1

\* C2 witness: a table has been chunked into three or more ranges
C2_Witness ==
  /\ ChunkingCompleted
  /\ Cardinality(RangedTasks) >= 3

(***************************************************************************)
(* Claims about the run, checked under Spec.                               *)
(***************************************************************************)
RunEnded == cpc \in {"returned", "threw"}
RunThrew == cpc = "threw"

\* wait_for_all_tasks has joined the worker threads
WorkersJoined ==
  /\ threads > 0
  /\ cpc \in {"finish", "rethrow", "run_check", "returned", "threw"}

\* C4: if run() ends by throwing, @.done.json has not been written, also
\* when the operator interrupts at any point of the run.
C4_NoDoneJsonWhenRunThrows == RunThrew => ~done_json

\* C5: whenever @.done.json is written, every worker has exited, every task
\* ever pushed has been executed to completion, and every data file is closed
\* and bears its final name.
C5_DoneJsonAfterAllWork ==
  done_json =>
    /\ \A w \in Workers : wpc[w] = "exited"
    /\ executed = pushed
    /\ \A id \in FileIds : dtask[id] \in {"none", "finished"}
    /\ \A f \in AllFiles :
         files[f].exists =>
           ~files[f].open /\ ~files[f].in_progress /\ files[f].postamble

\* C5 witness: @.done.json is written after two DumpRange tasks wrote files
C5_Witness ==
  /\ done_json
  /\ Cardinality({id \in FileIds : dtask[id] = "finished"}) >= 2
  /\ pushed >= 5

\* C6: if the operator interrupts while run() executes and no worker raised
\* an exception, then run() ends by throwing 'Interrupted by user'.
C6_InterruptEndsInCancellation ==
  (RunEnded /\ interrupts > 0 /\ NonEmptySlots = {}) =>
    (RunThrew /\ run_exception = InterruptedByUser)

\* the lowest-index slot that holds an exception
FirstNonEmptySlot == CHOOSE w \in NonEmptySlots : \A v \in NonEmptySlots : w <= v

ProgramStep ==
  \/ DoRunBegin \/ AcquireReadLocks \/ CheckInterrupt \/ SpawnThread
  \/ EmplaceWorker \/ InitializeInstanceCache \/ WaitForWorkers
  \/ LockInstance \/ Validate \/ InitializeDump \/ CreateSchemaDdlTasks
  \/ CreateTableTasks \/ MaybePushShutdownTasks \/ WaitForAllTasks
  \/ Finish \/ Rethrow \/ RunCheck \/ KillWorkers \/ KillJoin
  \/ \E w \in Workers :
       \/ OpenSession(w) \/ HandleException(w) \/ Pop(w) \/ WriteDdl(w)
       \/ ChunkEmit(w) \/ ChunkReturnsZero(w) \/ ChunkFails(w)
       \/ ChunkEnd(w) \/ DumpBegin(w) \/ DumpRows(w) \/ DumpFinish(w)

\* C8: once the interrupt flag is set the run is never stuck: until run()
\* has returned or thrown some thread can take a step, so that under fair
\* scheduling every worker exits and the join completes.
C8_InterruptedRunNeverStuck ==
  (m_worker_interrupt /\ cpc # "do_run") => (RunEnded \/ ENABLED ProgramStep)

\* C9: in multi-file mode a data file that bears its final name has its
\* postamble and is closed, and the file of a DumpRange task that was
\* interrupted or threw keeps the in-progress extension.
C9_FinalNameMeansComplete ==
  ~m_options.use_single_file =>
    \A f \in FileIds :
      /\ (files[f].exists /\ ~files[f].in_progress) =>
           (files[f].postamble /\ ~files[f].open)
      /\ (files[f].exists /\ dtask[f] \in {"interrupted", "threw"}) =>
           files[f].in_progress

\* C9 witness: one file is final while the task of another was interrupted
C9_Witness ==
  /\ ~m_options.use_single_file
  /\ \E f \in FileIds : files[f].exists /\ ~files[f].in_progress
  /\ \E f \in FileIds : files[f].exists /\ dtask[f] = "interrupted"

\* C10 (as stated): if the run is cancelled while a ChunkTable task executes,
\* no file with the in-progress extension remains once the workers joined.
C10_NoInProgressFileAfterCancel ==
  (chunk_cancelled /\ WorkersJoined) =>
    \A f \in AllFiles : ~(files[f].exists /\ files[f].in_progress)

\* C10 (amended): if the run is cancelled while a ChunkTable task executes,
\* then once the workers joined a file with the in-progress extension is the
\* file of a DumpRange task that had started and was interrupted or threw;
\* a task the chunker made that never started has no file at all.
C10_OnlyStartedTasksLeaveFiles ==
  (chunk_cancelled /\ WorkersJoined) =>
    \A f \in FileIds :
      /\ (files[f].exists /\ files[f].in_progress) =>
           dtask[f] \in {"interrupted", "threw"}
      /\ dtask[f] = "queued" => ~files[f].exists

\* C10 witness: after the cancel one task of the chunker never started and
\* another left its in-progress file
C10_Witness ==
  /\ chunk_cancelled
  /\ WorkersJoined
  /\ \E f \in FileIds : dtask[f] = "queued"
  /\ \E f \in FileIds : files[f].exists /\ files[f].in_progress

(***************************************************************************)
(* Claims about the read locks, checked under SpecLock.                    *)
(***************************************************************************)
\* the sessions whose consistent snapshot has started
Started == {s \in Sessions : snapshot[s] # NoSnapshot}

\* from the return of acquire_read_locks to the return of wait_for_workers
BeforeWorkersReady ==
  cpc \in {"check_interrupt", "create_worker_threads",
           "initialize_instance_cache", "wait_for_workers"}

\* C3: with consistency requested, the transaction of every worker and that
\* of the coordinator start while the coordinator holds the read lock (the
\* global one or the table locks of the fallback), the lock is held until
\* all workers have signalled readiness, and so no write is committed
\* between two snapshot starts: all snapshots show the same database.
\* (Stated for the runs in which the coordinator has not failed.)
C3_SnapshotsUnderReadLock ==
  cpc # "kill_workers" =>
    /\ \A s \in Started : under_lock[s]
    /\ BeforeWorkersReady => HoldsReadLock
    /\ \A s \in Started : \A r \in Started : snapshot[s] = snapshot[r]

(***************************************************************************)
(* Claims about the writers, checked under Spec.                           *)
(***************************************************************************)
\* the worker is between writer->open() and the return of finish_writing
Writing(w) == wpc[w] \in {"dump_rows", "dump_finish"}

\* the DumpRange tasks that wait in the queue or are being executed
HeldDataTasks ==
  {m_worker_tasks.LOW[i] : i \in 1..Len(m_worker_tasks.LOW)}
  \cup {wtask[w] : w \in Workers}

NoSharedWriter ==
  /\ \A a \in HeldDataTasks : \A b \in HeldDataTasks :
       (a.kind = "data" /\ b.kind = "data" /\ a # b) => a.writer # b.writer
  /\ \A v \in Workers : \A w \in Workers :
       (v # w /\ Writing(v) /\ Writing(w)) =>
         FileOf(wtask[v]) # FileOf(wtask[w])

\* C11 (as stated): no two workers ever write to the same writer, and every
\* DumpRange task is handed a writer that no other task holds.
C11_NoSharedWriter == NoSharedWriter

\* in multi-file mode the writers are never shared (the sharing that
\* refutes C11 needs the single file)
WritersExclusiveInMultiFileMode ==
  ~m_options.use_single_file => NoSharedWriter

(***************************************************************************)
(* Claims about the bytes of the data files, checked under SpecData.       *)
(***************************************************************************)
RECURSIVE SumOver(_, _)
\* the sum of value[x] over the x of a finite set
SumOver(value, set) ==
  IF set = {} THEN 0
  ELSE LET x == CHOOSE y \in set : TRUE
       IN value[x] + SumOver(value, set \ {x})

\* every DumpRange task has returned from dump_table_data, none interrupted
AllTasksCompleted == ~m_worker_interrupt /\ \A i \in DataTasks : dpc[i] = "done"

\* C12: when a run completes without interrupt or error, the aggregate
\* dataBytes counter is the sum over the DumpRange tasks of the data bytes the
\* writer reported for preamble, rows and postamble, and is the sum of the
\* per-table dataBytes entries; the aggregate bytesWritten counter is the sum
\* of the reported bytes after compression; the batching of the progress
\* updates loses and double-counts no byte and no row.
C12_CountersAreSumsOfReported ==
  AllTasksCompleted =>
    /\ m_data_bytes =
         SumOver([i \in DataTasks |-> reported[i].data_bytes], DataTasks)
    /\ m_data_bytes = SumOver(m_table_data_bytes, DataTables)
    /\ m_bytes_written =
         SumOver([i \in DataTasks |-> reported[i].bytes_written], DataTasks)
    /\ m_rows_written =
         SumOver([i \in DataTasks |-> reported[i].rows], DataTasks)
    /\ done_doc.written =>
         /\ done_doc.dataBytes = m_data_bytes
         /\ done_doc.tableDataBytes = m_table_data_bytes

\* C12 witness: a completed run in which one task sent a full batch from the
\* row loop and a remainder at its end, and another sent only a remainder
C12_Witness ==
  /\ AllTasksCompleted
  /\ done_doc.written
  /\ \E i \in DataTasks : reported[i].rows > update_every
  /\ \E i \in DataTasks : reported[i].rows \in 1..(update_every - 1)

\* the entry of @.done.json for the file of task i, as a set of byte counts
FileEntries(i) ==
  {e.bytes : e \in {x \in done_doc.chunkFileBytes : x.name = output_name[i]}}

\* C13 (as stated): for every finalized data file, the per-file entry of
\* @.done.json is the file's bytesWritten, its byte count after compression.
C13_FileEntryIsBytesWritten ==
  done_doc.written =>
    \A i \in DataTasks :
      dpc[i] = "done" => FileEntries(i) = {reported[i].bytes_written}

\* C13 (amended): for every finalized data file, the per-file entry of
\* @.done.json is the file's data bytes: the length of the preamble, rows and
\* postamble before compression, which dump_table_data hands to
\* finish_writing.
C13_FileEntryIsDataBytes ==
  done_doc.written =>
    \A i \in DataTasks :
      dpc[i] = "done" => FileEntries(i) = {reported[i].data_bytes}

\* C13 witness: @.done.json is written for files whose length before
\* compression differs from their length after it
C13_Witness ==
  /\ done_doc.written
  /\ \A i \in DataTasks :
       dpc[i] = "done" /\ reported[i].data_bytes # reported[i].bytes_written

\* the names under which @.done.json lists the data files
ListedFiles == {e.name : e \in done_doc.chunkFileBytes}

\* C14: when @.done.json is written in multi-file mode, its per-file map has
\* exactly one entry for each data file produced, keyed by the final name of
\* the file, no two DumpRange tasks sharing a key; and @.json lists each
\* dumped schema exactly once.
C14_OneEntryPerFileAndSchema ==
  done_doc.written =>
    /\ ListedFiles = {get_table_data_filename(i) : i \in DataTasks}
    /\ \A i \in DataTasks : output_name[i] = get_table_data_filename(i)
    /\ Cardinality(done_doc.chunkFileBytes) = Cardinality(DataTasks)
    /\ started_doc.written
    /\ \A name \in CacheSchemas :
         Cardinality({k \in 1..Len(started_doc.schemas) :
                        started_doc.schemas[k] = name}) = 1
    /\ Len(started_doc.schemas) = Cardinality(CacheSchemas)

\* C14 witness: @.done.json is written for the two chunks of one table
C14_Witness ==
  /\ done_doc.written
  /\ data_kind = "chunks"
  /\ Cardinality(ListedFiles) = 2

\* the task has left the row loop at its end and written the postamble
DumpCompleted(i) == dpc[i] \in {"finish", "done"}

\* C15: for every DumpRange task that has an index file and completes without
\* interrupt, whatever the sizes of its rows, the last entry of the index is
\* the total data-byte length of the chunk (preamble, rows and postamble),
\* and the entries before it are strictly increasing and at most that total.
C15_IndexFileLaw ==
  \A i \in DataTasks :
    DumpCompleted(i) =>
      LET entries == index_file[i]
          n == Len(entries)
      IN /\ n >= 1
         /\ entries[n] = reported[i].data_bytes
         /\ \A k \in 1..(n - 2) : entries[k] < entries[k + 1]
         /\ \A k \in 1..(n - 1) : entries[k] <= entries[n]

\* C15 witness: a completed task whose index has two offsets before the total
C15_Witness ==
  \E i \in DataTasks : dpc[i] = "done" /\ Len(index_file[i]) >= 3

(***************************************************************************)
(* Claims about the ordinals of the chunks, checked under SpecChunk.       *)
(***************************************************************************)
\* C16: for every chunked table whose chunking completes without interrupt,
\* the DumpRange tasks carry the ordinals 0, 1, ..., n-1 with no gaps, and
\* exactly one task, the one with ordinal n-1, is flagged as the last chunk.
C16_OrdinalsDenseLastFlagged ==
  (ChunkingCompleted /\ RangedTasks # {}) =>
    /\ RangedTasks = 1..Len(data_tasks)
    /\ \A i \in RangedTasks :
         /\ data_tasks[i].idx = i - 1
         /\ data_tasks[i].last_chunk <=> (i = Len(data_tasks))

\* C16 witness: a string-keyed table chunked by walking with LIMIT into two
\* or more ranges, the last one flagged
C16_Witness ==
  /\ ChunkingCompleted
  /\ keyType = "String"
  /\ Len(data_tasks) >= 2
  /\ data_tasks[Len(data_tasks)].last_chunk

(***************************************************************************)
(* Claims about an empty table, checked under SpecChunk.                   *)
(***************************************************************************)
\* Dumper::is_chunked(table) and the "chunking" member that
\* write_table_metadata (2385-2389) writes to the metadata file of the table
write_table_metadata == [chunking |-> is_chunked]

\* C17: for an empty table (MIN(key) is NULL) no data file is produced (no
\* DumpRange task is made for it) and the metadata file of the table records
\* chunking: false.
C17_EmptyTableNoDataFile ==
  (ChunkingCompleted /\ ~HasRows) =>
    /\ data_tasks = <<>>
    /\ ~write_table_metadata.chunking

\* C18: with a consistent dump requested, gtidExecutedInconsistent of @.json
\* is true when the global read lock was denied and the table locks were
\* taken instead, and false when the global read lock was acquired
C18_GtidExecutedInconsistentFollowsLock ==
  (m_options.consistent_dump /\ started_doc.written) =>
    /\ read_lock_taken \in {"global", "tables"}
    /\ started_doc.gtidExecutedInconsistent = (read_lock_taken = "tables")

\* @.json of a dump that fell back to LOCK TABLES has been written
C18_Witness ==
  /\ m_options.consistent_dump
  /\ started_doc.written
  /\ read_lock_taken = "tables"
  /\ started_doc.gtidExecutedInconsistent

\* FLUSH TABLES WITH READ LOCK was denied and a LOCK TABLES statement of
\* lock_all_tables that names tables in scope has failed
FallbackLockFailed ==
  /\ m_ftwrl_failed
  /\ read_lock_taken = "none"
  /\ citer >= 1
  /\ run_exception # NoException

\* no thread was created, no task was pushed, nothing was written
NothingStarted ==
  /\ threads = 0
  /\ m_workers = 0
  /\ pushed = 0
  /\ QueueEmpty(m_worker_tasks)
  /\ \A f \in AllFiles : ~files[f].exists
  /\ ~output_directory
  /\ ~started_doc.written
  /\ ~done_json

\* C19: when the global read lock is denied and a fallback LOCK TABLES on
\* tables in scope fails too, run() fails with the error before any worker
\* thread is created, any task is pushed or any output file is written
C19_FallbackFailureBeforeAnyWork ==
  FallbackLockFailed =>
    /\ cpc = "kill_workers"
    /\ run_exception = CoordinatorException
    /\ NothingStarted

\* the second LOCK TABLES statement on tables in scope has failed, after the
\* first one locked its tables
C19_Witness ==
  /\ FallbackLockFailed
  /\ citer >= 2
  /\ cpc = "kill_workers"

\* validate_privileges or validate_mds has thrown
ValidationFailed == run_exception = ValidationError

\* no task other than the null tasks of a shutdown has been pushed
NoTaskPushed ==
  /\ pushed = 0
  /\ \A p \in {"HIGH", "MEDIUM", "LOW"} :
       \A k \in 1..Len(m_worker_tasks[p]) : m_worker_tasks[p][k] = NullTask

\* no output directory and no output file has been created
NothingCreated ==
  /\ ~output_directory
  /\ ~started_doc.written
  /\ ~done_json
  /\ \A f \in AllFiles : ~files[f].exists

\* C20: when the privilege check or the compatibility pass fails, run()
\* throws with no output directory or file created and no task pushed, and
\* every worker thread has been shut down and joined before the error leaves
\* run(); until then some thread can take a step
C20_ValidationFailureLeavesNothing ==
  ValidationFailed =>
    /\ cpc \in {"kill_workers", "kill_join", "threw"}
    /\ NoTaskPushed
    /\ NothingCreated
    /\ RunThrew => /\ threads = m_options.threads
                   /\ m_workers = 0
                   /\ \A w \in Workers : wpc[w] = "exited"
    /\ RunThrew \/ ENABLED ProgramStep

\* run() has thrown the error of the validation, after the threads it had
\* started were joined
C20_Witness ==
  /\ ValidationFailed
  /\ RunThrew
  /\ threads = m_options.threads
  /\ \A w \in Workers : wpc[w] = "exited"

(***************************************************************************)
(* SpecMds: one call of validate_mds.                                      *)
(***************************************************************************)
InitMds ==
  /\ MdsInit
  /\ NoNames
  /\ NoQuery
  /\ Constructed(DefaultOptions)
  /\ m_worker_interrupt = FALSE
  /\ NoChunking
  /\ NoLocking
  /\ NoData
  /\ small_packet = FALSE

NextMds ==
  \/ ValidateMdsBegin /\ UNCHANGED <<chunkVars, m_worker_interrupt, runVars, lockVars, dataVars, queryVars, nameVars>>
  \/ ValidateMdsDump /\ UNCHANGED <<chunkVars, m_worker_interrupt, runVars, lockVars, dataVars, queryVars, nameVars>>
  \/ ValidateMdsEnd /\ UNCHANGED <<chunkVars, m_worker_interrupt, runVars, lockVars, dataVars, queryVars, nameVars>>

SpecMds == InitMds /\ [][NextMds]_vars

\* C21: with a compatibility target and DDL dumping, validate_mds lets the
\* dump proceed if and only if every issue reported by the dump_* calls has
\* status FIXED; otherwise it throws 'Compatibility issues were found'
C21_ProceedsIffEveryIssueFixed ==
  (mds_options.mds_compatibility /\ mds_options.dump_ddl
     /\ mds_pc \in {"proceed", "threw"}) =>
    /\ mds_step = Len(MdsCalls)
    /\ (mds_pc = "proceed") = (mds_reported \subseteq {"FIXED"})
    /\ (mds_pc = "threw") = (mds_exception = CompatibilityIssues)
    /\ fixed = ("FIXED" \in mds_reported)

\* the pass let the dump proceed after FIXED issues were reported for the
\* users, the triggers and the other objects
C21_Witness ==
  /\ mds_options.mds_compatibility /\ mds_options.dump_ddl
  /\ mds_options.dump_users /\ mds_options.dump_triggers
  /\ has_triggers[1]
  /\ mds_pc = "proceed"
  /\ mds_reported = {"FIXED"}

(***************************************************************************)
(* SpecQuery: the query, the preamble and the metadata of one table.       *)
(***************************************************************************)
InitQuery ==
  /\ QueryInit
  /\ NoNames
  /\ NoMds
  /\ Constructed(DefaultOptions)
  /\ m_worker_interrupt = FALSE
  /\ NoChunking
  /\ NoLocking
  /\ NoData
  /\ small_packet = FALSE

NextQuery ==
  \/ PrepareQuery /\ UNCHANGED <<chunkVars, m_worker_interrupt, runVars, lockVars, dataVars, mdsVars, nameVars>>
  \/ WritePreamble /\ UNCHANGED <<chunkVars, m_worker_interrupt, runVars, lockVars, dataVars, mdsVars, nameVars>>
  \/ WriteTableMetadata /\ UNCHANGED <<chunkVars, m_worker_interrupt, runVars, lockVars, dataVars, mdsVars, nameVars>>

SpecQuery == InitQuery /\ [][NextQuery]_vars

\* the function the loader applies to undo the function of the query
InverseOf(fn) == IF fn = "HEX" THEN "UNHEX" ELSE "FROM_BASE64"

\* the encoding the writer is told for a function of the query
EncodingOf(fn) ==
  IF fn = "HEX" THEN "HEX" ELSE IF fn = "TO_BASE64" THEN "BASE64" ELSE "NONE"

\* C22: for every column, the query wraps it in HEX() or TO_BASE64() if and
\* only if it is csv_unsafe, the encoding given to the preamble matches the
\* wrapping, and decodeColumns holds exactly the wrapped columns, each with
\* the inverse function
C22_EncodingsAgree ==
  (qpc = "rows" /\ table_metadata.written) =>
    /\ Len(query_columns) = Len(columns)
    /\ Len(preamble_encodings) = Len(columns)
    /\ \A c \in 1..Len(columns) :
         /\ query_columns[c].column = c
         /\ (query_columns[c].fn \in {"HEX", "TO_BASE64"})
              = columns[c].csv_unsafe
         /\ ~columns[c].csv_unsafe => query_columns[c].fn = ""
         /\ preamble_encodings[c] = EncodingOf(query_columns[c].fn)
    /\ DOMAIN table_metadata.decodeColumns =
         {c \in 1..Len(columns) : query_columns[c].fn # ""}
    /\ \A c \in DOMAIN table_metadata.decodeColumns :
         table_metadata.decodeColumns[c] = InverseOf(query_columns[c].fn)

\* a table with a safe column and an unsafe one, dumped with base64
C22_Witness ==
  /\ qpc = "rows"
  /\ table_metadata.written
  /\ use_base64
  /\ \E c, d \in 1..Len(columns) :
       columns[c].csv_unsafe /\ ~columns[d].csv_unsafe

(***************************************************************************)
(* SpecNames: a sequence of calls of get_basename.                         *)
(***************************************************************************)
InitNames ==
  /\ NoNames
  /\ NoMds
  /\ NoQuery
  /\ Constructed(DefaultOptions)
  /\ m_worker_interrupt = FALSE
  /\ NoChunking
  /\ NoLocking
  /\ NoData
  /\ small_packet = FALSE

NextNames ==
  \E name \in EncodedNames :
    GetBasename(name) /\ UNCHANGED <<chunkVars, m_worker_interrupt, runVars, lockVars, dataVars, mdsVars, queryVars>>

SpecNames == InitNames /\ [][NextNames]_vars

\* the calls that were given a name with the same truncated name as call k
SharingPrefix(k) ==
  {j \in 1..Len(get_basename_calls) :
     /\ Len(get_basename_calls[j].name) > max_length
     /\ truncate(get_basename_calls[j].name, max_length)
          = truncate(get_basename_calls[k].name, max_length)}

\* C23: over calls with pairwise distinct encoded names the basenames are
\* pairwise distinct; a name of at most max_length characters is returned
\* unchanged, a longer one truncated to max_length characters and followed by
\* an ordinal unique among the names that share the truncated name
C23_BasenamesDistinct ==
  /\ \A j, k \in 1..Len(get_basename_calls) :
       j # k => get_basename_calls[j].basename # get_basename_calls[k].basename
  /\ \A k \in 1..Len(get_basename_calls) :
       LET call == get_basename_calls[k]
       IN IF Len(call.name) <= max_length
          THEN call.basename = call.name
          ELSE /\ SubSeq(call.basename, 1, max_length)
                    = SubSeq(call.name, 1, max_length)
               /\ \E n \in 0..(MaxBasenames - 1) :
                    call.basename
                      = SubSeq(call.name, 1, max_length) \o to_string(n)
               /\ \A j \in SharingPrefix(k) \ {k} :
                    get_basename_calls[j].basename # call.basename

\* three names that share their truncated name, and ordinals 0, 1 and 2
C23_Witness ==
  /\ Len(get_basename_calls) = 3
  /\ SharingPrefix(1) = {1, 2, 3}
  /\ get_basename_calls[3].basename
       = truncate(get_basename_calls[3].name, max_length) \o <<"2">>

\* a null task waits in the queue or has been popped by a worker
NullTaskPublished ==
  \/ \E p \in {"HIGH", "MEDIUM", "LOW"} :
       \E k \in 1..Len(m_worker_tasks[p]) : m_worker_tasks[p][k] = NullTask
  \/ \E w \in Workers : wtask[w] = NullTask

\* a ChunkTable task is yet to be produced by create_table_tasks, waits in
\* the queue or is being executed
ChunkTableOutstanding ==
  \/ /\ ~m_options.is_dry_run
     /\ \/ cpc \in {"do_run", "acquire_read_locks", "check_interrupt",
                    "create_worker_threads", "initialize_instance_cache",
                    "wait_for_workers", "lock_instance", "validate",
                    "initialize_dump", "create_schema_ddl_tasks"}
        \/ cpc = "create_table_tasks" /\ citer <= m_options.tables
  \/ \E p \in {"HIGH", "MEDIUM", "LOW"} :
       \E k \in 1..Len(m_worker_tasks[p]) : m_worker_tasks[p][k].kind = "chunk"
  \/ \E w \in Workers : wtask[w].kind = "chunk"

\* C24: absent interrupt, under every interleaving of create_table_tasks,
\* maybe_push_shutdown_tasks and chunking_task_finished, no null task is
\* published while a ChunkTable task is unproduced, queued or running
C24_ShutdownOnlyAfterChunking ==
  (~m_worker_interrupt /\ NullTaskPublished) => ~ChunkTableOutstanding

\* with two tables, the last chunking_task_finished of a worker published
\* the null tasks before the coordinator called maybe_push_shutdown_tasks
C24_Witness ==
  /\ ~m_worker_interrupt
  /\ ~m_options.is_dry_run
  /\ m_options.tables = 2
  /\ m_options.threads >= 2
  /\ NullTaskPublished
  /\ cpc = "maybe_push_shutdown_tasks"

(***************************************************************************)
(* SpecTasks: the runs of a dump to a directory in which the operator does *)
(* not interrupt and no operation fails, for every number of worker        *)
(* threads and tables.                                                     *)
(***************************************************************************)
TaskProfiles ==
  {[DefaultOptions EXCEPT !.threads = n, !.tables = t] :
     n \in 1..NumWorkers, t \in 1..NumTables}

InitTasks ==
  /\ NoFn
  /\ \E options \in TaskProfiles :
       Construct(options, MaxInterrupts, MaxFaults)
  /\ m_worker_interrupt \in BOOLEAN
  /\ NoChunking
  /\ NoLocking
  /\ NoData
  /\ small_packet = FALSE

\* the steps of the coordinator
CoordinatorNext ==
  \/ DoRunBegin /\ UNCHANGED <<fnVars, chunkVars, lockVars, dataVars>>
  \/ AcquireReadLocks /\ UNCHANGED <<fnVars, chunkVars, lockVars, dataVars>>
  \/ CheckInterrupt /\ UNCHANGED <<fnVars, chunkVars, lockVars, dataVars>>
  \/ SpawnThread /\ UNCHANGED <<fnVars, chunkVars, lockVars, dataVars>>
  \/ EmplaceWorker /\ UNCHANGED <<fnVars, chunkVars, lockVars, dataVars>>
  \/ InitializeInstanceCache /\ UNCHANGED <<fnVars, chunkVars, lockVars, dataVars>>
  \/ WaitForWorkers /\ UNCHANGED <<fnVars, chunkVars, lockVars, dataVars>>
  \/ LockInstance /\ UNCHANGED <<fnVars, chunkVars, lockVars, dataVars>>
  \/ Validate /\ UNCHANGED <<fnVars, chunkVars, lockVars, dataVars>>
  \/ InitializeDump /\ UNCHANGED <<fnVars, chunkVars, lockVars>>
  \/ CreateSchemaDdlTasks /\ UNCHANGED <<fnVars, chunkVars, lockVars, dataVars>>
  \/ CreateTableTasks /\ UNCHANGED <<fnVars, chunkVars, lockVars, dataVars>>
  \/ MaybePushShutdownTasks /\ UNCHANGED <<fnVars, chunkVars, lockVars, dataVars>>
  \/ WaitForAllTasks /\ UNCHANGED <<fnVars, chunkVars, lockVars, dataVars>>
  \/ Finish /\ UNCHANGED <<fnVars, chunkVars, lockVars, dataVars>>
  \/ Rethrow /\ UNCHANGED <<fnVars, chunkVars, lockVars, dataVars>>
  \/ RunCheck /\ UNCHANGED <<fnVars, chunkVars, lockVars, dataVars>>

\* the steps of worker w
WorkerNext(w) ==
  \/ OpenSession(w) /\ UNCHANGED <<fnVars, chunkVars, lockVars, dataVars>>
  \/ Pop(w) /\ UNCHANGED <<fnVars, chunkVars, lockVars, dataVars>>
  \/ WriteDdl(w) /\ UNCHANGED <<fnVars, chunkVars, lockVars, dataVars>>
  \/ ChunkEmit(w) /\ UNCHANGED <<fnVars, chunkVars, lockVars, dataVars>>
  \/ ChunkReturnsZero(w) /\ UNCHANGED <<fnVars, chunkVars, lockVars, dataVars>>
  \/ ChunkEnd(w) /\ UNCHANGED <<fnVars, chunkVars, lockVars, dataVars>>
  \/ DumpBegin(w) /\ UNCHANGED <<fnVars, chunkVars, lockVars, dataVars>>
  \/ DumpRows(w) /\ UNCHANGED <<fnVars, chunkVars, lockVars, dataVars>>
  \/ DumpFinish(w) /\ UNCHANGED <<fnVars, chunkVars, lockVars, dataVars>>

NextTasks ==
  \/ CoordinatorNext
  \/ \E w \in Workers : WorkerNext(w)

SpecTasks == InitTasks /\ [][NextTasks]_vars

\* C25: the query of every DumpRange task created with a key range is
\* restricted to that range, with OR key IS NULL only for the first range,
\* for every begin the chunker produces, the empty string included; only the
\* task of the whole table issues an unrestricted query
C25_RangedTasksRestricted ==
  \A k \in 1..Len(data_tasks) :
    LET task == data_tasks[k]
        query == prepare_query(task)
    IN IF task.ranged
       THEN /\ query.where
            /\ query.lo = quote_value(task.begin, task.type)
            /\ query.hi = quote_value(task.end, task.type)
            /\ query.or_null = (task.idx = 0)
       ELSE ~query.where

\* the ranged task with ordinal n
TaskOfOrdinal(n) == CHOOSE i \in RangedTasks : data_tasks[i].idx = n

\* C26: for every integer-keyed table, signed or unsigned, with any
\* MIN <= MAX, and any estimates of next_step, every range has
\* MIN <= begin <= end <= MAX, the first range begins at MIN, each following
\* range begins at the previous end + 1, and the last range ends at MAX
C26_IntegerRangesTileMinMax ==
  (ChunkingCompleted /\ IsIntType(keyType) /\ RangedTasks # {}) =>
    /\ \A i \in RangedTasks :
         /\ TableMin <= ParseInt(data_tasks[i].begin)
         /\ ParseInt(data_tasks[i].begin) <= ParseInt(data_tasks[i].end)
         /\ ParseInt(data_tasks[i].end) <= TableMax
    /\ \A i \in RangedTasks :
         IF data_tasks[i].idx = 0
         THEN ParseInt(data_tasks[i].begin) = TableMin
         ELSE ParseInt(data_tasks[i].begin)
                = ParseInt(data_tasks[TaskOfOrdinal(data_tasks[i].idx - 1)].end)
                    + 1
    /\ \A i \in RangedTasks :
         data_tasks[i].idx = Cardinality(RangedTasks) - 1 =>
           ParseInt(data_tasks[i].end) = TableMax

\* C27: when the average row length exceeds bytes_per_chunk (rows_per_chunk
\* is 0) the chunker takes the row-count estimate as the number of chunks
\* and completes without arithmetic fault, no division by zero and no
\* wrapped LIMIT offset, for every row-count estimate, 0 on a table with
\* rows included, and for integer and other keys
C27_NoFaultWhenRowsExceedChunk ==
  (is_chunked /\ HasRows /\ rows_per_chunk = 0) =>
    /\ estimated_chunks = row_count
    /\ kpc # "trapped"
    /\ "divzero" \notin arith
    /\ "offset" \notin arith

\* C28: on the fallback path, when lock_all_tables returns, every table in
\* scope of every schema is held under a READ lock by the session of the
\* coordinator at the same time, also when the tables are spread over
\* several LOCK TABLES statements, each of which releases the locks the
\* session held; and each table in scope is named in exactly one statement
C28_AllTablesLockedAtOnce ==
  (read_lock_taken = "tables" /\ cpc = "check_interrupt") =>
    /\ InScopeTables \subseteq table_locks
    /\ \A t \in InScopeTables :
         Cardinality({k \in 1..Len(LockStatements) : t \in LockStatements[k]})
           = 1

\* the coordinator goes on with do_run: it validates, creates the output
\* directory, writes @.json or pushes a task
ForwardTransition ==
  \/ /\ cpc' # cpc
     /\ cpc' \in {"create_worker_threads", "initialize_instance_cache",
                  "wait_for_workers", "lock_instance", "validate",
                  "initialize_dump", "create_schema_ddl_tasks",
                  "create_table_tasks", "maybe_push_shutdown_tasks"}
  \/ output_directory' # output_directory
  \/ started_doc' # started_doc
  \/ cpc' = cpc /\ cpc \in {"create_schema_ddl_tasks", "create_table_tasks"}
       /\ pushed' # pushed

\* C29: from any state of the coordinator, once the interrupt flag is set
\* the coordinator makes no further forward transition: it does not go on to
\* validate, create the output directory, write @.json or push tasks
C29_NoForwardStepOnceInterrupted ==
  [][(InDoRun /\ m_worker_interrupt) => ~ForwardTransition]_vars

(***************************************************************************)
(* SpecTasksFair: runs without interrupt or failure in which every thread  *)
(* is scheduled fairly: a thread that can take a step eventually takes     *)
(* one.  The worker threads are std::threads (line 1185) and the           *)
(* coordinator is the calling thread; the operating system starves none.   *)
(* The profiles are those of SpecTasks whose graph of states is small      *)
(* enough for the search for a fair cycle.                                 *)
(***************************************************************************)
FairProfiles ==
  {options \in TaskProfiles :
     options.threads + options.tables <= NumWorkers + 1}

InitTasksFair ==
  /\ InitTasks
  /\ m_options \in FairProfiles

SpecTasksFair ==
  /\ InitTasksFair
  /\ [][NextTasks]_vars
  /\ WF_vars(CoordinatorNext)
  /\ \A w \in Workers : WF_vars(WorkerNext(w))

\* run() has returned normally after every worker thread popped a null task
\* and left, every task pushed having been executed
ReturnedNormally ==
  /\ cpc = "returned"
  /\ run_exception = NoException
  /\ threads = m_options.threads
  /\ \A w \in Workers : w < m_options.threads => wpc[w] = "exited"
  /\ executed = pushed

\* C30: under fair scheduling, in a run without interrupt or error, for any
\* number of tables and workers and any interleaving of the chunking with
\* the production of the tasks, the null tasks are eventually published,
\* every worker eventually pops one and exits, and run() returns normally
C30_RunEventuallyReturns == <>[]ReturnedNormally

\* a run with two workers and two tables has returned
C30_Witness ==
  /\ ReturnedNormally
  /\ m_options.threads = 2
  /\ m_options.tables = 2
  /\ pushed >= 4

(***************************************************************************)
(* SpecStartup: the start of a run, up to the return of wait_for_workers   *)
(* (lines 1083-1110), with operator interrupts and failing operations,     *)
(* for every number of worker threads.  Every thread of the program is     *)
(* scheduled fairly; the operator is not.                                  *)
(***************************************************************************)
StartupProfiles ==
  {[DefaultOptions EXCEPT !.threads = n] : n \in 1..NumWorkers}

InitStartup ==
  /\ NoFn
  /\ \E options \in StartupProfiles : Constructed(options)
  /\ m_worker_interrupt \in BOOLEAN
  /\ NoChunking
  /\ NoLocking
  /\ NoData
  /\ small_packet = FALSE

\* the steps of the coordinator up to the readiness barrier, and those of
\* run() when do_run is left before it
CoordinatorStartup ==
  \/ DoRunBegin /\ UNCHANGED <<fnVars, chunkVars, lockVars, dataVars>>
  \/ AcquireReadLocks /\ UNCHANGED <<fnVars, chunkVars, lockVars, dataVars>>
  \/ CheckInterrupt /\ UNCHANGED <<fnVars, chunkVars, lockVars, dataVars>>
  \/ SpawnThread /\ UNCHANGED <<fnVars, chunkVars, lockVars, dataVars>>
  \/ EmplaceWorker /\ UNCHANGED <<fnVars, chunkVars, lockVars, dataVars>>
  \/ InitializeInstanceCache /\ UNCHANGED <<fnVars, chunkVars, lockVars, dataVars>>
  \/ WaitForWorkers /\ UNCHANGED <<fnVars, chunkVars, lockVars, dataVars>>
  \/ RunCheck /\ UNCHANGED <<fnVars, chunkVars, lockVars, dataVars>>
  \/ KillWorkers /\ UNCHANGED <<fnVars, chunkVars, lockVars, dataVars>>
  \/ KillJoin /\ UNCHANGED <<fnVars, chunkVars, lockVars, dataVars>>

\* the steps of worker w while no task has been pushed
WorkerStartup(w) ==
  \/ OpenSession(w) /\ UNCHANGED <<fnVars, chunkVars, lockVars, dataVars>>
  \/ HandleException(w) /\ UNCHANGED <<fnVars, chunkVars, lockVars, dataVars>>
  \/ Pop(w) /\ UNCHANGED <<fnVars, chunkVars, lockVars, dataVars>>

NextStartup ==
  \/ CoordinatorStartup
  \/ \E w \in Workers : WorkerStartup(w)
  \/ OperatorInterrupt /\ UNCHANGED <<fnVars, chunkVars, lockVars, dataVars>>

SpecStartup ==
  /\ InitStartup
  /\ [][NextStartup]_vars
  /\ WF_vars(CoordinatorStartup)
  /\ \A w \in Workers : WF_vars(WorkerStartup(w))

\* the workers that have left open_session, normally or by an exception
Signalled == {w \in Workers : wpc[w] \notin {"none", "open_session"}}

\* wait_for_workers has returned
BarrierPassed == cpc = "lock_instance"

\* every worker that left open_session has notified once: the count holds
\* one signal for each of them, less the N that wait_for consumed
SignalledOnce ==
  m_count + (IF BarrierPassed THEN m_workers ELSE 0) = Cardinality(Signalled)

\* C31: the wait of the coordinator at the readiness barrier always ends:
\* each of the N workers signals readiness exactly once, after its
\* open_session has succeeded or thrown, and wait_for_workers returns only
\* after N signals
C31_ReadinessBarrierEnds ==
  /\ []SignalledOnce
  /\ [](BarrierPassed =>
          /\ m_workers = m_options.threads
          /\ Cardinality(Signalled) = m_workers)
  /\ (cpc = "wait_for_workers") ~> BarrierPassed

\* the barrier was passed by three workers of which one threw in
\* open_session
C31_Witness ==
  /\ BarrierPassed
  /\ m_workers = 3
  /\ \E w \in Workers : m_worker_exceptions[w] # NoException
  /\ \E w \in Workers : wpc[w] = "pop"

\* the null tasks that wait in the queue
NullsWaiting ==
  Cardinality({k \in 1..Len(m_worker_tasks.HIGH) :
                 m_worker_tasks.HIGH[k] = NullTask})
  + Cardinality({k \in 1..Len(m_worker_tasks.MEDIUM) :
                   m_worker_tasks.MEDIUM[k] = NullTask})
  + Cardinality({k \in 1..Len(m_worker_tasks.LOW) :
                   m_worker_tasks.LOW[k] = NullTask})

\* the null tasks enqueued so far in a run without interrupt or error, where
\* a worker leaves only by popping one (lines 323-325)
NullsEnqueued ==
  NullsWaiting + Cardinality({w \in Workers : wpc[w] = "exited"})

\* C32: in a run without interrupt or error the shutdown operation is
\* invoked exactly once: N null tasks are enqueued over the whole run, N the
\* number of workers, under every interleaving of the calls of
\* chunking_task_finished with each other and with the call of
\* maybe_push_shutdown_tasks by the coordinator
C32_ShutdownInvokedOnce ==
  /\ NullsEnqueued \in {0, m_options.threads}
  /\ cpc = "returned" => NullsEnqueued = m_options.threads

\* worker w returns from pop with the interrupt flag set
PopsInterrupted(w) ==
  wpc[w] = "pop" /\ wpc'[w] # "pop" /\ m_worker_interrupt

\* worker w, streaming rows, fetches a row with the interrupt flag set
\* (lines 443-446)
ObservesInterrupt(w) ==
  wpc[w] = "dump_rows" /\ wpc'[w] = "exited"

\* the DumpRange task of file f was popped and dropped: it is neither
\* waiting nor held by a worker, and never began
Dropped(f) ==
  /\ dtask[f] = "queued"
  /\ \A k \in 1..Len(m_worker_tasks.LOW) :
       m_worker_tasks.LOW[k].kind = "data" =>
         <<m_worker_tasks.LOW[k].table, m_worker_tasks.LOW[k].idx>> # f
  /\ \A w \in Workers : wtask[w].kind = "data" => TaskId(w) # f

\* C33: a worker that pops a task after the interrupt flag has been set
\* never executes it, and a worker streaming rows stops before writing the
\* next row once it observes the flag, without writing the postamble or
\* renaming the file
C33_InterruptStopsWorkers ==
  [][\A w \in Workers :
       /\ PopsInterrupted(w) =>
            /\ wpc'[w] = "exited"
            /\ wtask'[w] = NoTask
            /\ files' = files
            /\ dtask' = dtask
            /\ executed' = executed
       /\ ObservesInterrupt(w) =>
            /\ m_worker_interrupt
            /\ files' = files
            /\ dtask'[TaskId(w)] = "interrupted"
            /\ executed' = executed
       /\ \A f \in FileIds :
            dtask[f] = "interrupted" => dtask'[f] = "interrupted"]_vars

\* one DumpRange task was popped under the flag and dropped, and another
\* was stopped while streaming: its file has the preamble only and, in
\* multi-file mode, its in-progress name
C33_Witness ==
  /\ m_worker_interrupt
  /\ ~m_options.use_single_file
  /\ \E f \in FileIds : Dropped(f)
  /\ \E f \in FileIds :
       /\ dtask[f] = "interrupted"
       /\ files[f].exists /\ files[f].preamble
       /\ ~files[f].postamble /\ files[f].in_progress

\* worker w leaves the catch of run() after a task it was executing threw
\* (lines 335-339, 813-821)
TaskThrew(w) ==
  wpc[w] = "caught" /\ wpc'[w] # "caught" /\ wtask[w] # NoTask

\* C34: when a task throws in worker i, the exception is stored in slot i
\* and in no other slot, the interrupt flag is set, N null tasks are
\* enqueued, and worker i executes no further task
C34_TaskExceptionAborts ==
  [][\A w \in Workers :
       /\ TaskThrew(w) =>
            /\ m_worker_exceptions' =
                 [m_worker_exceptions EXCEPT ![w] = WorkerException(w)]
            /\ m_worker_interrupt'
            /\ NullsWaiting' = NullsWaiting + m_options.threads
            /\ wpc'[w] = "exited"
            /\ executed' = executed
       /\ wpc[w] = "exited" => wpc'[w] = "exited"]_vars

\* the DumpRange task of one of three workers threw: its slot alone holds
\* an exception, the worker has left and the null tasks wait
C34_Witness ==
  /\ m_options.threads = 3
  /\ \E f \in FileIds : dtask[f] = "threw"
  /\ \E w \in Workers :
       /\ m_worker_exceptions[w] = WorkerException(w)
       /\ wpc[w] = "exited"
       /\ \A v \in Workers \ {w} : m_worker_exceptions[v] = NoException
  /\ m_worker_interrupt
  /\ NullsWaiting >= 3

(***************************************************************************)
(* SpecChunkFair: SpecChunk with the worker that chunks the table          *)
(* scheduled fairly: while create_table_data_tasks can take a step it      *)
(* eventually takes one.  The interrupt is not fair.                       *)
(***************************************************************************)
ChunkerNext ==
  /\ \/ Chunker(CreateRangedTasksBegin)
     \/ Chunker(GenerateRangesLoop)
     \/ Chunker(NextStepWhile)
     \/ Chunker(NextStepFor)
     \/ Chunker(NextStepPost)
     \/ Chunker(GenerateRangesApply)
     \/ Chunker(LimitWalk)
     \/ Chunker(CreateTableDataTasksEnd)
  /\ UNCHANGED <<fnVars, runVars, lockVars, dataVars>>

SpecChunkFair == SpecChunk /\ WF_vars(ChunkerNext)

\* one call of next_step issues at most 10 x 10 EXPLAIN queries
ProbesBounded ==
  /\ ns.i <= k_chunker_iterations
  /\ ns.retry <= k_chunker_retries
  /\ ns.probes <= k_chunker_retries * k_chunker_iterations

\* an iteration of the striding loop that is followed by another one has
\* advanced current
StridingAdvances ==
  (kpc = "gen_apply" /\ kpc' = "gen") => current' > current

\* a round of LIMIT-walking after the first has advanced the upper literal
LimitAdvances ==
  (kpc = "limit" /\ ranges_count > 0 /\ ranges_count' > ranges_count) =>
    KeyLess(range_end, range_end')

\* LIMIT-walking that was not interrupted (it returned its ranges) stopped
\* when the upper literal was MAX
LimitEndsAtMax ==
  (kpc = "finish" /\ ~IsIntType(keyType) /\ ranges > 0) =>
    range_end = total_end

\* create_table_data_tasks has returned, or the process was stopped by the
\* division by zero of line 629
ChunkingOver == kpc \in {"done", "trapped"}

\* C35: chunking of any table terminates: each boundary search issues at
\* most 10 x 10 EXPLAIN probes, the integer striding loop strictly advances
\* its current key on every iteration, and LIMIT-walking strictly advances
\* its upper literal until it equals MAX, also when the key column holds
\* many duplicate values
C35_ChunkingTerminates ==
  /\ [](ProbesBounded /\ LimitEndsAtMax)
  /\ [][StridingAdvances /\ LimitAdvances]_vars
  /\ <>[]ChunkingOver

\* a string-keyed table of three rows with a duplicate key was walked in
\* more than one round
C35_Witness ==
  /\ kpc = "done"
  /\ keyType = "String"
  /\ Len(tableKeys) = 3
  /\ \E i \in 1..2 : tableKeys[i] = tableKeys[i + 1]
  /\ ranges_count >= 2
  /\ range_end = total_end

\* C36: no arithmetic step of the integer range generation (max - min,
\* left + 2 * (retry + 1) * step, max - step + 1, current + step - 1,
\* ++current) overflows or wraps the type of the key, signed or unsigned,
\* for any MIN <= MAX that the type represents
C36_NoOverflowInRangeGeneration ==
  IsIntType(keyType) => "overflow" \notin arith

\* the DumpRange tasks that wait in the queue
DumpRangeWaiting ==
  Cardinality({k \in 1..Len(m_worker_tasks.LOW) :
                 m_worker_tasks.LOW[k].kind = "data"})

\* C37: at every point of the run the number of DumpRange (LOW priority)
\* tasks waiting in the queue is at most the number of workers
C37_DumpRangeTasksBounded == DumpRangeWaiting <= m_options.threads

\* C38: whenever the interrupt flag is set, by an interrupt of the operator
\* or as a consequence of an exception of a worker, the coordinator issues
\* a KILL QUERY for the primary session through an auxiliary connection
C38_InterruptKillsQuery ==
  (m_worker_interrupt /\ cpc # "do_run") => kill_queries > 0

====
